---- MODULE Spec2Model ----
(***************************************************************************)
(* Host-side driver of an EBYTE E22 UART radio module (go-ebyte-lora).     *)
(*                                                                         *)
(* The model covers the busy-signal synchronizer (pkg/common/hw_handler.go)*)
(* and the device controller (pkg/e22/module.go) with its register bank.   *)
(* Foreground callers are goroutines, one process each; the rising-edge    *)
(* handler of the AUX line is one further process (the gpiod line watcher  *)
(* calls the handler from a single goroutine, one event after the other).  *)
(* Time is abstracted: a bounded wait (time.After, the 2 s serial read     *)
(* timeout) may expire at any moment, a sleep is a step.                   *)
(***************************************************************************)
EXTENDS Integers, Sequences, FiniteSets, TLC

\* ------------------------------------------------------------------ bounds
NumCallers == 2
MaxWaiters == 2
MaxPendingEdges == 1
MaxCalls == 4
MaxConcurrentCalls == 2
MaxParamCount == 3
MaxPayloadLen == 3
MaxSetterCalls == 2

Callers == 1..NumCallers

\* -------------------------------------------------------- program constants
actionPowerReset == 0
actionRead == 1
actionWrite == 2
actionModeSwitch == 3

ModeNormal == 0
ModeWakeUp == 1
ModePowerSave == 2
ModeSleep == 3

ParityNone == "N"
ParityOdd == "O"
ParityEven == "E"
\* the zero value of the Parity type (a map lookup that misses yields it)
ParityZero == "nul"

Modes == {ModeNormal, ModeWakeUp, ModePowerSave, ModeSleep}

\* chipModes: mode -> levels of the two mode-select lines
chipModes ==
    [mode \in Modes |->
        CASE mode = ModeNormal    -> [m0Value |-> 0, m1Value |-> 0]
          [] mode = ModeWakeUp    -> [m0Value |-> 1, m1Value |-> 0]
          [] mode = ModePowerSave -> [m0Value |-> 0, m1Value |-> 1]
          [] mode = ModeSleep     -> [m0Value |-> 1, m1Value |-> 1]]

\* hal.OnMessageCb values: nil, Module.onMessageHandler, callbacks of other users
NoCallback == 0
ModuleHandler == 1
UserCallbacks == {2, 3}

\* onMsgCb was not called
NoDelivery == [to |-> NoCallback, data |-> <<>>,
               msg |-> [payload |-> <<>>, rssi |-> 0, err |-> FALSE],
               read |-> [err |-> "none", data |-> <<>>]]

\* holders of a mutex: a caller, the edge handler, or nobody
EdgeHandler == 0
Nobody == -1

VARIABLES
    calls,             \* calls started so far (StageSerialPortConfig apart)
    m0, m1,            \* levels of the mode-select output lines M0, M1
    aux,               \* level of the AUX (busy) input line: 1 = free
    edgeQ,             \* rising-edge events read by the watcher, not yet handled
    auxAction,         \* HWHandler.auxAction
    auxBusyWaitGroup,  \* HWHandler.auxBusyWaitGroup: ids of registered channels
    writeDone,         \* HWHandler.writeDone: values buffered (capacity 1)
    modeSwitchDone,    \* HWHandler.modeSwitchDone: values buffered (capacity 1)
    muAuxDone,         \* HWHandler.muAuxDone: holder
    muRead,            \* HWHandler.muRead: holder
    muBusy,            \* HWHandler.muBusy: holder
    onMsgCb,           \* HWHandler.onMsgCb: the callback registered, NoCallback for nil
    serialPortData,    \* HWHandler.serialPortData
    port,              \* configuration the serial transport is open with
    registers,         \* Module.registers, the live register bank
    module,            \* "none", "constructing", "ready": NewModule's progress
    pc,                \* position of each caller
    loc,               \* locals of each caller's call in progress
    ehPc,              \* position of the edge handler
    ehCur,             \* id of the channel auxDoneNotifyReceivers is sending on
    cbOut,             \* what the user's message callback was invoked with
    codec              \* a call of a register / codec function: its input and result

vars == <<calls, m0, m1, aux, edgeQ, auxAction, auxBusyWaitGroup,
          writeDone, modeSwitchDone, muAuxDone, muRead, muBusy, onMsgCb,
          serialPortData, port, registers, module, pc, loc, ehPc, ehCur, cbOut,
          codec>>

\* groups of variables an action leaves alone
envVars == <<aux, edgeQ>>
ehVars == <<ehPc, ehCur, cbOut>>
lineVars == <<m0, m1>>
syncVars == <<auxAction, auxBusyWaitGroup, writeDone, modeSwitchDone, muAuxDone>>
serialVars == <<serialPortData, port>>
bankVars == <<onMsgCb, registers>>
hwVars == <<lineVars, syncVars, serialVars, muRead, muBusy>>

\* --------------------------------------------------------- register model
\* bitwise and / or of two bytes
RECURSIVE BitAndN(_, _, _)
BitAndN(a, b, n) ==
    IF n = 0 THEN 0
    ELSE (IF a % 2 = 1 /\ b % 2 = 1 THEN 1 ELSE 0) + 2 * BitAndN(a \div 2, b \div 2, n - 1)

RECURSIVE BitOrN(_, _, _)
BitOrN(a, b, n) ==
    IF n = 0 THEN 0
    ELSE (IF a % 2 = 1 \/ b % 2 = 1 THEN 1 ELSE 0) + 2 * BitOrN(a \div 2, b \div 2, n - 1)

ByteBits == 8
BitAnd(a, b) == BitAndN(a, b, ByteBits)
BitOr(a, b) == BitOrN(a, b, ByteBits)

\* register addresses
ADD_H == 0
ADD_L == 1
REG0 == 2
REG1 == 3
REG2 == 4
REG3 == 5
CRYPT_H == 6
CRYPT_L == 7

RSSI_ENABLE == 128
RSSI_DISABLE == 0
TRANSMISSION_TRANSPARENT == 0
MaxChannel == 80

\* the register at address a is element a + 1 of the bank
At(regs, a) == regs[a + 1]

newRegistersCollection ==
    << [address |-> 0],
       [address |-> 0],
       [baudRate |-> 0, parityBit |-> 0, adRate |-> 0],
       [subPacket |-> 0, ambientNoiseRSSI |-> 0, transmittingPower |-> 0],
       [channel |-> 0],
       [enableRSSI |-> 0, transmissionMethod |-> 0, lbtEnable |-> 0, worCycle |-> 0],
       [value |-> 0],
       [value |-> 0] >>

\* GetValue giving back what the crypto registers hold
GetValueStored(a, r) ==
    CASE a = ADD_H -> r.address
      [] a = ADD_L -> r.address
      [] a = REG0 -> BitOr(BitOr(r.baudRate, r.parityBit), r.adRate)
      [] a = REG1 -> BitOr(BitOr(r.subPacket, r.ambientNoiseRSSI), r.transmittingPower)
      [] a = REG2 -> r.channel
      [] a = REG3 -> BitOr(BitOr(r.enableRSSI, r.transmissionMethod),
                           BitOr(r.lbtEnable, r.worCycle))
      [] a = CRYPT_H -> r.value
      [] a = CRYPT_L -> r.value

\* Register.GetValue of the register at address a
GetValue(a, r) ==
    CASE a = ADD_H -> r.address
      [] a = ADD_L -> r.address
      [] a = REG0 -> BitOr(BitOr(r.baudRate, r.parityBit), r.adRate)
      [] a = REG1 -> BitOr(BitOr(r.subPacket, r.ambientNoiseRSSI), r.transmittingPower)
      [] a = REG2 -> r.channel
      [] a = REG3 -> BitOr(BitOr(r.enableRSSI, r.transmissionMethod),
                           BitOr(r.lbtEnable, r.worCycle))
      [] a = CRYPT_H -> 0
      [] a = CRYPT_L -> 0

\* SetValue storing the channel as given
SetValueUnclamped(a, r, value) ==
    CASE a = ADD_H -> [address |-> value]
      [] a = ADD_L -> [address |-> value]
      [] a = REG0 -> [baudRate |-> BitAnd(value, 224),
                      parityBit |-> BitAnd(value, 24),
                      adRate |-> BitAnd(value, 7)]
      [] a = REG1 -> [subPacket |-> BitAnd(value, 192),
                      ambientNoiseRSSI |-> BitAnd(value, 32),
                      transmittingPower |-> BitAnd(value, 3)]
      [] a = REG2 -> [channel |-> value]
      [] a = REG3 -> [enableRSSI |-> BitAnd(value, 128),
                      transmissionMethod |-> BitAnd(value, 64),
                      lbtEnable |-> BitAnd(value, 8),
                      worCycle |-> BitAnd(value, 7)]
      [] a = CRYPT_H -> [value |-> value]
      [] a = CRYPT_L -> [value |-> value]

\* Register.SetValue of the register at address a: the register afterwards
SetValue(a, r, value) ==
    CASE a = ADD_H -> [address |-> value]
      [] a = ADD_L -> [address |-> value]
      [] a = REG0 -> [baudRate |-> BitAnd(value, 224),
                      parityBit |-> BitAnd(value, 24),
                      adRate |-> BitAnd(value, 7)]
      [] a = REG1 -> [subPacket |-> BitAnd(value, 192),
                      ambientNoiseRSSI |-> BitAnd(value, 32),
                      transmittingPower |-> BitAnd(value, 3)]
      [] a = REG2 -> [channel |-> IF value > MaxChannel THEN MaxChannel ELSE value]
      [] a = REG3 -> [enableRSSI |-> BitAnd(value, 128),
                      transmissionMethod |-> BitAnd(value, 64),
                      lbtEnable |-> BitAnd(value, 8),
                      worCycle |-> BitAnd(value, 7)]
      [] a = CRYPT_H -> [value |-> value]
      [] a = CRYPT_L -> [value |-> value]

\* registersCollection.Copy: an independent clone (banks are values here)
Copy(regs) == [i \in 1..Len(regs) |-> regs[i]]

\* registersCollection.EqualTo: every slot's GetValue matches
EqualTo(regs, other) ==
    \A i \in 1..Len(regs) : GetValue(i - 1, regs[i]) = GetValue(i - 1, other[i])

\* registersCollection.Update: byte k of params goes into register startAddr + k
Update(regs, startAddr, params) ==
    [i \in 1..Len(regs) |->
        IF i - 1 >= startAddr /\ i - 1 < startAddr + Len(params)
        THEN SetValue(i - 1, regs[i], params[i - startAddr])
        ELSE regs[i]]

\* a ConfigBuilder setter storing its value with the register's SetValue
SetterThroughSetValue(s, staged) ==
    LET Put(a, v) == [staged EXCEPT ![a + 1] = SetValue(a, @, v)]
    IN  CASE s.name = "Address" -> [Put(ADD_H, s.v1) EXCEPT ![ADD_L + 1] = SetValue(ADD_L, @, s.v2)]
          [] s.name = "Crypt" -> [Put(CRYPT_H, s.v1) EXCEPT ![CRYPT_L + 1] = SetValue(CRYPT_L, @, s.v2)]
          [] s.name \in {"SerialBaudRate", "SerialParityBit", "AirDataRate"} -> Put(REG0, s.v1)
          [] s.name \in {"SubPacketLength", "RSSIAmbientNoiseState", "TransmittingPower"} ->
                Put(REG1, s.v1)
          [] s.name = "Channel" -> Put(REG2, s.v1)
          [] OTHER -> Put(REG3, s.v1)

\* the ConfigBuilder setter s.name called with (s.v1, s.v2): stagedRegisters afterwards
Setter(s, staged) ==
    CASE s.name = "Address" ->
            [staged EXCEPT ![ADD_H + 1].address = s.v1, ![ADD_L + 1].address = s.v2]
      [] s.name = "SerialBaudRate" -> [staged EXCEPT ![REG0 + 1].baudRate = s.v1]
      [] s.name = "SerialParityBit" -> [staged EXCEPT ![REG0 + 1].parityBit = s.v1]
      [] s.name = "AirDataRate" -> [staged EXCEPT ![REG0 + 1].adRate = s.v1]
      [] s.name = "SubPacketLength" -> [staged EXCEPT ![REG1 + 1].subPacket = s.v1]
      [] s.name = "RSSIAmbientNoiseState" -> [staged EXCEPT ![REG1 + 1].ambientNoiseRSSI = s.v1]
      [] s.name = "TransmittingPower" -> [staged EXCEPT ![REG1 + 1].transmittingPower = s.v1]
      [] s.name = "Channel" -> [staged EXCEPT ![REG2 + 1] = SetValue(REG2, @, s.v1)]
      [] s.name = "RSSIState" -> [staged EXCEPT ![REG3 + 1].enableRSSI = s.v1]
      [] s.name = "TransmissionMethod" -> [staged EXCEPT ![REG3 + 1].transmissionMethod = s.v1]
      [] s.name = "LBTState" -> [staged EXCEPT ![REG3 + 1].lbtEnable = s.v1]
      [] s.name = "WORCycle" -> [staged EXCEPT ![REG3 + 1].worCycle = s.v1]
      [] s.name = "Crypt" ->
            [staged EXCEPT ![CRYPT_H + 1].value = s.v1, ![CRYPT_L + 1].value = s.v2]

\* ---------------------------------------------------------- protocol codec
cmdSetRegPermanent == 192
cmdGetReg == 193
cmdSetRegTemporary == 194
paramsStartPosition == 3

\* getConfigSetRequest sending all the registers whatever the crypto registers hold
getConfigSetRequestAll(temporary, regs) ==
    [i \in 1..(Len(regs) + paramsStartPosition) |->
        CASE i = 1 -> IF temporary THEN cmdSetRegTemporary ELSE cmdSetRegPermanent
          [] i = 2 -> ADD_H
          [] i = 3 -> Len(regs)
          [] OTHER -> GetValue(i - 4, regs[i - 3])]

\* Module.getConfigSetRequest
getConfigSetRequest(temporary, regs) ==
    LET n == IF At(regs, CRYPT_H).value = 0 /\ At(regs, CRYPT_L).value = 0
             THEN Len(regs) - 2 ELSE Len(regs)
    IN  [i \in 1..(n + paramsStartPosition) |->
            CASE i = 1 -> IF temporary THEN cmdSetRegTemporary ELSE cmdSetRegPermanent
              [] i = 2 -> ADD_H
              [] i = 3 -> n
              [] OTHER -> GetValue(i - 4, regs[i - 3])]

\* NewModule reads the first six registers
ReadableRegisters == 6

\* the frame readChipRegisters writes
GetRequest(startingAddress, length) == <<cmdGetReg, startingAddress, length>>

\* params[:n] of a slice whose backing array is the zeroed read buffer: the
\* bytes received, followed by the buffer's zero bytes
Reslice(params, n) == [i \in 1..n |-> IF i <= Len(params) THEN params[i] ELSE 0]

\* Module.parseChipResponse of the bytes ReadSerial returned
parseChipResponse(data) ==
    IF Len(data) < 4 THEN [ok |-> FALSE, startAddr |-> 0, length |-> 0, params |-> <<>>]
    ELSE LET paramsNumber == data[3]
             rest == SubSeq(data, 4, Len(data))
             params == IF paramsNumber > 0 THEN Reslice(rest, paramsNumber) ELSE rest
         IN  IF paramsNumber # Len(params)
             THEN [ok |-> FALSE, startAddr |-> 0, length |-> 0, params |-> <<>>]
             ELSE [ok |-> TRUE, startAddr |-> data[2], length |-> paramsNumber,
                   params |-> params]

\* serialBaudMap / serialParityMap: a key the map lacks yields the zero value
serialBaudMap(b) ==
    CASE b = 0 -> 1200 [] b = 32 -> 2400 [] b = 64 -> 4800 [] b = 96 -> 9600
      [] b = 128 -> 19200 [] b = 160 -> 38400 [] b = 192 -> 57600 [] b = 224 -> 115200
      [] OTHER -> 0

serialParityMap(p) ==
    CASE p = 0 -> ParityNone [] p = 8 -> ParityOdd [] p = 16 -> ParityEven
      [] OTHER -> ParityZero

\* Module.updateSerialStreamConfig: the (baud, parity) staged on the handler
DerivedSerialConfig(regs) ==
    [baud |-> serialBaudMap(At(regs, REG0).baudRate),
     parity |-> serialParityMap(At(regs, REG0).parityBit)]

\* onMessageHandler delivering the buffer whole whatever the RSSI flag
onMessageHandlerWhole(regs, msg) == [payload |-> msg, rssi |-> 0, err |-> FALSE]

\* Module.onMessageHandler: what the user's callback receives for (msg, nil)
onMessageHandler(regs, msg) ==
    IF At(regs, REG3).enableRSSI = RSSI_ENABLE
    THEN IF Len(msg) < 2
         THEN [payload |-> <<>>, rssi |-> 0, err |-> TRUE]
         ELSE [payload |-> SubSeq(msg, 1, Len(msg) - 1), rssi |-> msg[Len(msg)],
               err |-> FALSE]
    ELSE [payload |-> msg, rssi |-> 0, err |-> FALSE]

\* HWHandler.GetMode of the line levels
GetMode(m0Val, m1Val) ==
    LET hit == {mode \in DOMAIN chipModes :
                   chipModes[mode].m0Value = m0Val /\ chipModes[mode].m1Value = m1Val}
    IN  IF hit # {} THEN [ok |-> TRUE, mode |-> CHOOSE mode \in hit : TRUE]
        ELSE [ok |-> FALSE, mode |-> 0]

\* ------------------------------------------------------- inputs of the model
\* bytes a serial read may deliver: the response to a GET / SET of registers 0..5
\* of a chip set to 115200 baud, even parity, the same with the RSSI flag of REG3
\* set, that of a chip set to 9600 baud, no parity, and a single stray byte
RxData ==
    { <<193, 0, 6, 1, 2, 240, 0, 5, 0>>,
      <<193, 0, 6, 1, 2, 240, 0, 5, 128>>,
      <<193, 0, 6, 1, 2, 96, 0, 5, 0>>,
      <<65>> }

\* serialStream.Read: a timeout without data (io.EOF), a failure, or bytes
ReadOutcomes ==
    { [err |-> "eof", data |-> <<>>], [err |-> "io", data |-> <<>>] }
    \cup { [err |-> "none", data |-> d] : d \in RxData }

\* (baud, parity) pairs a caller stages with StageSerialPortConfig
SerialConfigs ==
    { [baud |-> 9600, parity |-> ParityNone], [baud |-> 115200, parity |-> ParityEven] }

\* states a caller passes to ConfigBuilder.RSSIState before committing
RSSIStates == {RSSI_ENABLE, RSSI_DISABLE}

\* messages a caller sends
Messages == { <<72, 105>> }

\* destinations (address, channel) a caller sends fixed messages to
FixedTargets == { [addressHigh |-> 0, addressLow |-> 3, channel |-> 23] }

\* sequences over S of length up to n
SeqsUpTo(S, n) == UNION { [1..k -> S] : k \in 0..n }

\* register writes: every byte value into REG0, REG1 and REG3
ByteValues == 0..255
RegisterInputs ==
    { [kind |-> "register", a |-> a, v |-> v] : a \in {REG0, REG1, REG3}, v \in ByteValues }

\* SetValue calls in a row on REG2, CRYPT_H and CRYPT_L: every byte value once,
\* and pairs of the bytes of KeyBytes
KeyBytes == {0, 1, 80, 81, 171, 255}
WriteInputs ==
    { [kind |-> "writes", a |-> a, vs |-> vs] :
        a \in {REG2, CRYPT_H, CRYPT_L},
        vs \in [1..1 -> ByteValues] \cup [1..2 -> KeyBytes] }

\* staged banks: what ConfigBuilder has after NewConfigBuilder on the registers a
\* chip answered with, and Crypt(cryptHigh, cryptLow)
CryptKeys == { <<0, 0>>, <<171, 0>>, <<0, 205>>, <<171, 205>> }
BankInputs ==
    { [kind |-> "bank", temporary |-> t,
       regs |-> [Copy(Update(newRegistersCollection, ADD_H, SubSeq(d, 4, 9)))
                     EXCEPT ![CRYPT_H + 1].value = k[1], ![CRYPT_L + 1].value = k[2]]] :
        t \in BOOLEAN, d \in {d \in RxData : Len(d) = 9}, k \in CryptKeys }

\* bytes ReadSerial returns to the module: a header declaring up to
\* MaxParamCount parameters followed by up to MaxPayloadLen bytes, and shorter ones
PayloadBytes == {7, 9}
DataInputs ==
    { [kind |-> "data", data |-> <<cmdGetReg, ADD_H, n>> \o p] :
        n \in 0..MaxParamCount, p \in SeqsUpTo(PayloadBytes, MaxPayloadLen) }
    \cup { [kind |-> "data", data |-> d] : d \in {<<>>, <<65>>} }

\* received buffers handed to Module.onMessageHandler, with the RSSI flag of the
\* live bank enabled and disabled
MessageBuffers == { <<>>, <<65>>, <<65, 200>>, <<65, 66, 67, 200>> }
MessageInputs ==
    { [kind |-> "message", msg |-> m,
       regs |-> [newRegistersCollection EXCEPT ![REG3 + 1].enableRSSI = state]] :
        m \in MessageBuffers, state \in RSSIStates }

\* calls of the ConfigBuilder setters, with constants of the argument's type
SetterCalls ==
    { [name |-> "Address", v1 |-> 1, v2 |-> 2], [name |-> "Crypt", v1 |-> 171, v2 |-> 205] }
    \cup { [name |-> n, v1 |-> v, v2 |-> 0] :
             n \in {"SerialBaudRate"}, v \in {96, 224} }
    \cup { [name |-> n, v1 |-> v, v2 |-> 0] : n \in {"SerialParityBit"}, v \in {0, 16} }
    \cup { [name |-> n, v1 |-> v, v2 |-> 0] : n \in {"AirDataRate", "WORCycle"}, v \in {2, 7} }
    \cup { [name |-> n, v1 |-> v, v2 |-> 0] : n \in {"SubPacketLength"}, v \in {0, 192} }
    \cup { [name |-> n, v1 |-> v, v2 |-> 0] : n \in {"RSSIAmbientNoiseState"}, v \in {0, 32} }
    \cup { [name |-> n, v1 |-> v, v2 |-> 0] : n \in {"TransmittingPower"}, v \in {0, 3} }
    \cup { [name |-> n, v1 |-> v, v2 |-> 0] : n \in {"Channel"}, v \in {23, 80, 81, 200} }
    \cup { [name |-> n, v1 |-> v, v2 |-> 0] : n \in {"RSSIState"}, v \in RSSIStates }
    \cup { [name |-> n, v1 |-> v, v2 |-> 0] : n \in {"TransmissionMethod"}, v \in {0, 64} }
    \cup { [name |-> n, v1 |-> v, v2 |-> 0] : n \in {"LBTState"}, v \in {0, 8} }

\* live banks a builder is made from: the zeroed bank and the banks decoded from
\* the chip's responses
BuilderInputs ==
    { [kind |-> "builder", live |-> newRegistersCollection] }
    \cup { [kind |-> "builder", live |-> Update(newRegistersCollection, ADD_H, SubSeq(d, 4, 9))] :
             d \in {d \in RxData : Len(d) = 9} }

CodecInputs ==
    RegisterInputs \cup BankInputs \cup DataInputs \cup MessageInputs \cup BuilderInputs
    \cup WriteInputs

\* modes a caller asks SetMode for
SetModeTargets == Modes

\* ------------------------------------------------------------ caller locals
LocInit ==
    [op |-> "none",        \* the call in progress
     stage |-> "none",     \* the hardware call of a module call that is running
     mode |-> 0,           \* SetMode's argument
     id |-> 0,             \* registerAndWaitAUXDone's channel id
     free |-> "none",      \* how registerAndWaitAUXDone ended in this hardware call
     acted |-> "none",     \* "wrote" / "drove": this hardware call reached the device
     currentMode |-> 0,    \* the mode captured by WriteConfigToChip / NewModule
     staged |-> <<>>,      \* stagedRegisters
     arg |-> <<>>,         \* the arguments of SendMessage / SendFixedMessage
     msg |-> <<>>,         \* the bytes handed to WriteSerial
     rx |-> <<>>,          \* the bytes ReadSerial returned to the module
     result |-> "none"]    \* "ok" or the error returned

\* a hardware call starts with no channel id and no busy-free outcome
HwEnter(l) == [l EXCEPT !.id = 0, !.free = "none", !.acted = "none"]

Mode == GetMode(m0, m1)

\* a call ends with result res / goes on to position p with locals l2
Finish(c, l, res) ==
    /\ pc' = [pc EXCEPT ![c] = "done"]
    /\ loc' = [loc EXCEPT ![c] = [l EXCEPT !.result = res]]

Goto(c, p, l2) ==
    /\ pc' = [pc EXCEPT ![c] = p]
    /\ loc' = [loc EXCEPT ![c] = l2]

\* WriteConfigToChip after its SetMode / WriteSerial of stage l.stage returned r
WriteConfigNext(c, l, r) ==
    /\ UNCHANGED module
    /\ IF r # "ok" THEN Finish(c, l, r)
       ELSE IF l.stage = "sleep"
       THEN Goto(c, "ws_lock",
                 HwEnter([l EXCEPT !.stage = "write",
                                   !.msg = getConfigSetRequest(FALSE, l.staged)]))
       ELSE IF l.stage = "write" THEN Goto(c, "rs_lock", HwEnter([l EXCEPT !.stage = "read"]))
       ELSE Finish(c, l, "ok")

\* NewModule after its SetMode / WriteSerial of stage l.stage returned r
NewModuleNext(c, l, r) ==
    IF r # "ok" THEN Finish(c, l, r) /\ module' = "none"
    ELSE IF l.stage = "sleep"
         THEN /\ Goto(c, "ws_lock",
                      HwEnter([l EXCEPT !.stage = "write",
                                        !.msg = GetRequest(ADD_H, ReadableRegisters)]))
              /\ UNCHANGED module
    ELSE IF l.stage = "write"
         THEN Goto(c, "rs_lock", HwEnter([l EXCEPT !.stage = "read"])) /\ UNCHANGED module
    ELSE Finish(c, l, "ok") /\ module' = "ready"

\* the continuation of a caller when its SetMode / WriteSerial returns r
HwReturn(c, l, r) ==
    IF l.op = "WriteConfigToChip" THEN WriteConfigNext(c, l, r)
    ELSE IF l.op = "NewModule" THEN NewModuleNext(c, l, r)
    ELSE Finish(c, l, r) /\ UNCHANGED module

\* no register / codec function is being applied
NoCodecCall == [fn |-> "none", in |-> <<>>, out |-> <<>>]

\* ------------------------------------------------------------------- Init
\* the handler as NewHWHandler returns it: port open at 9600/N, M0 = M1 = 1,
\* auxAction = actionRead, no module constructed
InitHandler ==
    /\ calls = 0
    /\ m0 = 1 /\ m1 = 1
    /\ aux \in {0, 1}
    /\ edgeQ = 0
    /\ auxAction = actionRead
    /\ auxBusyWaitGroup = {}
    /\ writeDone = 0 /\ modeSwitchDone = 0
    /\ muAuxDone = Nobody /\ muRead = Nobody /\ muBusy = Nobody
    /\ port = [baud |-> 9600, parity |-> ParityNone]
    /\ pc = [c \in Callers |-> "idle"]
    /\ loc = [c \in Callers |-> LocInit]
    /\ ehPc = "idle" /\ ehCur = 0
    /\ cbOut = NoDelivery

Init ==
    /\ InitHandler
    /\ codec = NoCodecCall
    /\ serialPortData = [serialBaud |-> 9600, serialParityBit |-> ParityNone,
                         serialBaudStaged |-> 9600, serialParityBitStaged |-> ParityNone]
    /\ onMsgCb = NoCallback
    /\ registers = newRegistersCollection
    /\ module = "none"

\* ------------------------------------------------------- the AUX line (device)
AuxFall ==
    /\ aux = 1
    /\ aux' = 0
    /\ UNCHANGED <<calls, codec, edgeQ, ehVars, hwVars, bankVars, module, pc, loc>>

\* a rising edge: the line watcher queues the event for the handler
AuxRise ==
    /\ aux = 0
    /\ edgeQ < MaxPendingEdges
    /\ aux' = 1
    /\ edgeQ' = edgeQ + 1
    /\ UNCHANGED <<calls, codec, ehVars, hwVars, bankVars, module, pc, loc>>

\* ---------------------------------------------------------- HWHandler calls
\* the hardware call a caller is in is SetMode (else WriteSerial / ReadSerial)
InSetMode(l) == l.op = "SetMode" \/ l.stage \in {"sleep", "restore"}

\* HWHandler.StageSerialPortConfig
StageSerialPortConfig(c, cfg) ==
    /\ pc[c] = "idle"
    /\ serialPortData' = [serialPortData EXCEPT !.serialBaudStaged = cfg.baud,
                                                !.serialParityBitStaged = cfg.parity]
    /\ UNCHANGED <<calls, codec, envVars, ehVars, lineVars, syncVars, port, muRead, muBusy, bankVars,
                   module, pc, loc>>

\* a caller calls HWHandler.SetMode(mode)
CallSetMode(c, mode) ==
    /\ pc[c] = "idle" /\ calls < MaxCalls
    /\ Goto(c, "sm_get", [LocInit EXCEPT !.op = "SetMode", !.mode = mode])
    /\ calls' = calls + 1 /\ UNCHANGED codec
    /\ UNCHANGED <<envVars, ehVars, hwVars, bankVars, module>>

\* a caller calls HWHandler.WriteSerial(msg)
CallWriteSerial(c) ==
    /\ pc[c] = "idle" /\ calls < MaxCalls
    /\ \E m \in Messages : Goto(c, "ws_lock", [LocInit EXCEPT !.op = "WriteSerial", !.msg = m])
    /\ calls' = calls + 1 /\ UNCHANGED codec
    /\ UNCHANGED <<envVars, ehVars, hwVars, bankVars, module>>

\* a caller calls HWHandler.ReadSerial()
CallReadSerial(c) ==
    /\ pc[c] = "idle" /\ calls < MaxCalls
    /\ Goto(c, "rs_lock", [LocInit EXCEPT !.op = "ReadSerial"])
    /\ calls' = calls + 1 /\ UNCHANGED codec
    /\ UNCHANGED <<envVars, ehVars, hwVars, bankVars, module>>

\* the caller takes the result of its call
Return(c) ==
    /\ pc[c] = "done"
    /\ Goto(c, "idle", LocInit)
    /\ UNCHANGED <<calls, codec, envVars, ehVars, hwVars, bankVars, module>>

\* SetMode going on to muBusy.Lock also when the chip is in the mode asked for
SM_GetModeNoTest(c) ==
    /\ pc[c] = "sm_get"
    /\ IF ~Mode.ok THEN HwReturn(c, loc[c], "undefined")
       ELSE Goto(c, "sm_lock", loc[c]) /\ UNCHANGED module
    /\ UNCHANGED <<calls, codec, envVars, ehVars, hwVars, bankVars>>

\* SetMode: GetMode, and return at once when the chip is in the mode asked for
SM_GetMode(c) ==
    /\ pc[c] = "sm_get"
    /\ IF ~Mode.ok THEN HwReturn(c, loc[c], "undefined")
       ELSE IF Mode.mode = loc[c].mode THEN HwReturn(c, loc[c], "ok")
       ELSE Goto(c, "sm_lock", loc[c]) /\ UNCHANGED module
    /\ UNCHANGED <<calls, codec, envVars, ehVars, hwVars, bankVars>>

\* the serialPortData SetMode hands to updateSerialConfig
SerialArg(mode) ==
    IF mode = ModeSleep
    THEN [serialBaud |-> serialPortData.serialBaud,
          serialParityBit |-> serialPortData.serialParityBit,
          serialBaudStaged |-> 9600,
          serialParityBitStaged |-> ParityNone]
    ELSE serialPortData

\* updateSerialConfig's test: the current and the next configuration differ
NeedsReopen(spd) ==
    ~(spd.serialBaud = spd.serialBaudStaged /\ spd.serialParityBit = spd.serialParityBitStaged)

\* HWHandler.serialPortData after updateSerialConfig reopened the port for SetMode(mode):
\* updateSerialConfig records the new configuration in the struct it was handed,
\* which for ModeSleep is a temporary
RecordAfterReopen(mode, spd) ==
    IF mode = ModeSleep THEN serialPortData
    ELSE [spd EXCEPT !.serialBaud = spd.serialBaudStaged,
                     !.serialParityBit = spd.serialParityBitStaged]

\* SetMode: muBusy.Lock, the chipModes lookup, updateSerialConfig's test
SM_Lock(c) ==
    /\ pc[c] = "sm_lock"
    /\ muBusy = Nobody
    /\ IF loc[c].mode \notin DOMAIN chipModes
       THEN HwReturn(c, loc[c], "unsupported") /\ UNCHANGED muBusy
       ELSE /\ muBusy' = c
            /\ Goto(c, IF NeedsReopen(SerialArg(loc[c].mode)) THEN "sm_reopen" ELSE "rw_check",
                    loc[c])
            /\ UNCHANGED module
    /\ UNCHANGED <<calls, codec, envVars, ehVars, lineVars, syncVars, serialVars, muRead, bankVars>>

\* updateSerialConfig closing and opening the port without muRead
SM_ReopenUnlocked(c) ==
    /\ pc[c] = "sm_reopen"
    /\ LET spd == SerialArg(loc[c].mode)
       IN  \/ /\ port' = [baud |-> spd.serialBaudStaged, parity |-> spd.serialParityBitStaged]
              /\ serialPortData' = RecordAfterReopen(loc[c].mode, spd)
              /\ Goto(c, "rw_check", loc[c])
              /\ UNCHANGED <<muBusy, module>>
           \/ /\ muBusy' = Nobody
              /\ HwReturn(c, loc[c], "transport")
              /\ UNCHANGED <<port, serialPortData>>
    /\ UNCHANGED <<calls, codec, envVars, ehVars, lineVars, syncVars, muRead, bankVars>>

\* SetMode: updateSerialConfig under muRead: flush, close, open with the staged
\* configuration, record it
SM_Reopen(c) ==
    /\ pc[c] = "sm_reopen"
    /\ muRead = Nobody
    /\ LET spd == SerialArg(loc[c].mode)
       IN  \/ /\ port' = [baud |-> spd.serialBaudStaged, parity |-> spd.serialParityBitStaged]
              /\ serialPortData' = RecordAfterReopen(loc[c].mode, spd)
              /\ Goto(c, "rw_check", loc[c])
              /\ UNCHANGED <<muBusy, module>>
           \/ \* serialStream.Flush fails
              /\ muBusy' = Nobody
              /\ HwReturn(c, loc[c], "transport")
              /\ UNCHANGED <<port, serialPortData>>
    /\ UNCHANGED <<calls, codec, envVars, ehVars, lineVars, syncVars, muRead, bankVars>>

\* registerAndWaitAUXDone: AUXLine.Value
RW_Check(c) ==
    /\ pc[c] = "rw_check"
    /\ IF aux = 1
       THEN Goto(c, IF InSetMode(loc[c]) THEN "sm_set" ELSE "ws_set",
                 [loc[c] EXCEPT !.free = "free"])
       ELSE Goto(c, "rw_reg", loc[c])
    /\ UNCHANGED <<calls, codec, envVars, ehVars, hwVars, bankVars, module>>

\* a channel id not in the map (random.String)
FreshId == CHOOSE i \in 1..(Cardinality(auxBusyWaitGroup) + 1) : i \notin auxBusyWaitGroup

\* registerAndWaitAUXDone: register the channel under muAuxDone
RW_Register(c) ==
    /\ pc[c] = "rw_reg"
    /\ muAuxDone = Nobody
    /\ Cardinality(auxBusyWaitGroup) < MaxWaiters
    /\ auxBusyWaitGroup' = auxBusyWaitGroup \cup {FreshId}
    /\ Goto(c, "rw_wait", [loc[c] EXCEPT !.id = FreshId])
    /\ UNCHANGED <<calls, codec, envVars, ehVars, lineVars, auxAction, writeDone, modeSwitchDone, muAuxDone,
                   serialVars, muRead, muBusy, bankVars, module>>


\* registerAndWaitAUXDone treating the expired wait as a release
RW_TimeoutProceeds(c) ==
    /\ pc[c] = "rw_wait"
    /\ Goto(c, IF InSetMode(loc[c]) THEN "sm_set" ELSE "ws_set",
            [loc[c] EXCEPT !.free = "timeout"])
    /\ UNCHANGED <<calls, codec, envVars, ehVars, hwVars, bankVars, module>>

\* registerAndWaitAUXDone: time.After fires; the caller's WriteSerial / SetMode
\* returns the error and its deferred muBusy.Unlock runs
RW_Timeout(c) ==
    /\ pc[c] = "rw_wait"
    /\ muBusy' = Nobody
    /\ HwReturn(c, [loc[c] EXCEPT !.free = "timeout"], "timeout")
    /\ UNCHANGED <<calls, codec, envVars, ehVars, lineVars, syncVars, serialVars, muRead, bankVars>>

\* SetMode: setAuxAction(actionModeSwitch)
SM_SetAction(c) ==
    /\ pc[c] = "sm_set"
    /\ auxAction' = actionModeSwitch
    /\ Goto(c, "sm_lines", loc[c])
    /\ UNCHANGED <<calls, codec, envVars, ehVars, lineVars, auxBusyWaitGroup, writeDone, modeSwitchDone,
                   muAuxDone, serialVars, muRead, muBusy, bankVars, module>>

\* SetMode driving each line with the level of the other
SM_LinesSwapped(c) ==
    /\ pc[c] = "sm_lines"
    /\ LET chipMode == chipModes[loc[c].mode]
       IN  /\ m0' = chipMode.m1Value /\ m1' = chipMode.m0Value
           /\ Goto(c, "sm_wait", [loc[c] EXCEPT !.acted = "drove"])
           /\ UNCHANGED <<muBusy, module>>
    /\ UNCHANGED <<calls, codec, envVars, ehVars, syncVars, serialVars, muRead, bankVars>>

\* SetMode: M0Line.SetValue, M1Line.SetValue
SM_Lines(c) ==
    /\ pc[c] = "sm_lines"
    /\ LET chipMode == chipModes[loc[c].mode]
       IN  \/ /\ m0' = chipMode.m0Value /\ m1' = chipMode.m1Value
              /\ Goto(c, "sm_wait", [loc[c] EXCEPT !.acted = "drove"])
              /\ UNCHANGED <<muBusy, module>>
           \/ \* M0Line.SetValue fails
              /\ UNCHANGED <<m0, m1>>
              /\ muBusy' = Nobody
              /\ HwReturn(c, loc[c], "transport")
           \/ \* M1Line.SetValue fails
              /\ m0' = chipMode.m0Value /\ UNCHANGED m1
              /\ muBusy' = Nobody
              /\ HwReturn(c, [loc[c] EXCEPT !.acted = "drove"], "transport")
    /\ UNCHANGED <<calls, codec, envVars, ehVars, syncVars, serialVars, muRead, bankVars>>

\* SetMode: modeSwitchDone received, the 200 ms sleep, return
SM_Done(c) ==
    /\ pc[c] = "sm_wait"
    /\ modeSwitchDone > 0
    /\ modeSwitchDone' = modeSwitchDone - 1
    /\ muBusy' = Nobody
    /\ HwReturn(c, loc[c], "ok")
    /\ UNCHANGED <<calls, codec, envVars, ehVars, lineVars, auxAction, auxBusyWaitGroup, writeDone,
                   muAuxDone, serialVars, muRead, bankVars>>

\* SetMode: time.After fires before modeSwitchDone
SM_WaitTimeout(c) ==
    /\ pc[c] = "sm_wait"
    /\ muBusy' = Nobody
    /\ HwReturn(c, loc[c], "timeout")
    /\ UNCHANGED <<calls, codec, envVars, ehVars, lineVars, syncVars, serialVars, muRead, bankVars>>


\* WriteSerial entering without waiting for muBusy
WS_LockUnguarded(c) ==
    /\ pc[c] = "ws_lock"
    /\ muBusy' = c
    /\ Goto(c, "rw_check", loc[c])
    /\ UNCHANGED <<calls, codec, envVars, ehVars, lineVars, syncVars, serialVars, muRead, bankVars, module>>

\* WriteSerial: muBusy.Lock
WS_Lock(c) ==
    /\ pc[c] = "ws_lock"
    /\ muBusy = Nobody
    /\ muBusy' = c
    /\ Goto(c, "rw_check", loc[c])
    /\ UNCHANGED <<calls, codec, envVars, ehVars, lineVars, syncVars, serialVars, muRead, bankVars, module>>

\* WriteSerial: setAuxAction(actionWrite)
WS_SetAction(c) ==
    /\ pc[c] = "ws_set"
    /\ auxAction' = actionWrite
    /\ Goto(c, "ws_write", loc[c])
    /\ UNCHANGED <<calls, codec, envVars, ehVars, lineVars, auxBusyWaitGroup, writeDone, modeSwitchDone,
                   muAuxDone, serialVars, muRead, muBusy, bankVars, module>>

\* WriteSerial: serialStream.Write
WS_Write(c) ==
    /\ pc[c] = "ws_write"
    /\ \/ /\ Goto(c, "ws_wait", [loc[c] EXCEPT !.acted = "wrote"])
          /\ UNCHANGED <<muBusy, module>>
       \/ /\ muBusy' = Nobody
          /\ HwReturn(c, loc[c], "transport")
    /\ UNCHANGED <<calls, codec, envVars, ehVars, lineVars, syncVars, serialVars, muRead, bankVars>>

\* WriteSerial: writeDone received, the 2 ms sleep, return
WS_Done(c) ==
    /\ pc[c] = "ws_wait"
    /\ writeDone > 0
    /\ writeDone' = writeDone - 1
    /\ muBusy' = Nobody
    /\ HwReturn(c, loc[c], "ok")
    /\ UNCHANGED <<calls, codec, envVars, ehVars, lineVars, auxAction, auxBusyWaitGroup, modeSwitchDone,
                   muAuxDone, serialVars, muRead, bankVars>>

\* WriteSerial: time.After fires before writeDone
WS_WaitTimeout(c) ==
    /\ pc[c] = "ws_wait"
    /\ muBusy' = Nobody
    /\ HwReturn(c, loc[c], "timeout")
    /\ UNCHANGED <<calls, codec, envVars, ehVars, lineVars, syncVars, serialVars, muRead, bankVars>>


\* ReadSerial entering without waiting for muRead
RS_LockUnguarded(c) ==
    /\ pc[c] = "rs_lock"
    /\ muRead' = c
    /\ Goto(c, "rs_read", loc[c])
    /\ UNCHANGED <<calls, codec, envVars, ehVars, lineVars, syncVars, serialVars, muBusy, bankVars, module>>

\* ReadSerial (foreground): muRead.Lock
RS_Lock(c) ==
    /\ pc[c] = "rs_lock"
    /\ muRead = Nobody
    /\ muRead' = c
    /\ Goto(c, "rs_read", loc[c])
    /\ UNCHANGED <<calls, codec, envVars, ehVars, lineVars, syncVars, serialVars, muBusy, bankVars, module>>

\* the staged serial configuration after Module.updateSerialStreamConfig
StagedFrom(regs) ==
    [serialPortData EXCEPT !.serialBaudStaged = DerivedSerialConfig(regs).baud,
                           !.serialParityBitStaged = DerivedSerialConfig(regs).parity]


\* the decoding ending the call with success, without SetMode(currentMode)
DecodeNoRestore(c, data) ==
    LET rsp == parseChipResponse(data)
    IN  IF ~rsp.ok
        THEN /\ Finish(c, [loc[c] EXCEPT !.rx = data], "framing")
             /\ module' = IF loc[c].op = "NewModule" THEN "none" ELSE module
             /\ UNCHANGED <<registers, serialPortData>>
        ELSE /\ registers' = Update(registers, rsp.startAddr, rsp.params)
             /\ serialPortData' = StagedFrom(registers')
             /\ module' = IF loc[c].op = "NewModule" THEN "ready" ELSE module
             /\ Finish(c, [loc[c] EXCEPT !.rx = data], "ok")

\* WriteConfigToChip without its verification of the echoed response
DecodeUnverified(c, data) ==
    LET rsp == parseChipResponse(data)
    IN  IF ~rsp.ok
        THEN /\ Finish(c, [loc[c] EXCEPT !.rx = data], "framing")
             /\ module' = IF loc[c].op = "NewModule" THEN "none" ELSE module
             /\ UNCHANGED <<registers, serialPortData>>
        ELSE /\ registers' = Update(registers, rsp.startAddr, rsp.params)
             /\ serialPortData' = StagedFrom(registers')
             /\ UNCHANGED module
             /\ Goto(c, "sm_get", HwEnter([loc[c] EXCEPT !.stage = "restore", !.rx = data,
                                                         !.mode = loc[c].currentMode]))

\* the decoding storing the staged bank as the live bank when the response does
\* not parse
DecodeAdoptsStaged(c, data) ==
    LET rsp == parseChipResponse(data)
    IN  IF ~rsp.ok
        THEN /\ Finish(c, [loc[c] EXCEPT !.rx = data], "framing")
             /\ module' = IF loc[c].op = "NewModule" THEN "none" ELSE module
             /\ registers' = IF loc[c].op = "WriteConfigToChip" THEN loc[c].staged
                              ELSE registers
             /\ UNCHANGED serialPortData
        ELSE /\ registers' = Update(registers, rsp.startAddr, rsp.params)
             /\ serialPortData' = StagedFrom(registers')
             /\ UNCHANGED module
             /\ IF loc[c].op = "WriteConfigToChip" /\ ~EqualTo(loc[c].staged, registers')
                THEN Finish(c, [loc[c] EXCEPT !.rx = data], "integrity")
                ELSE Goto(c, "sm_get", HwEnter([loc[c] EXCEPT !.stage = "restore", !.rx = data,
                                                              !.mode = loc[c].currentMode]))

\* what follows ReadSerial returning data to WriteConfigToChip / NewModule:
\* saveConfig, updateSerialStreamConfig, WriteConfigToChip's verification, and
\* the start of SetMode(currentMode)
Decode(c, data) ==
    LET rsp == parseChipResponse(data)
    IN  IF ~rsp.ok
        THEN /\ Finish(c, [loc[c] EXCEPT !.rx = data], "framing")
             /\ module' = IF loc[c].op = "NewModule" THEN "none" ELSE module
             /\ UNCHANGED <<registers, serialPortData>>
        ELSE /\ registers' = Update(registers, rsp.startAddr, rsp.params)
             /\ serialPortData' = StagedFrom(registers')
             /\ UNCHANGED module
             /\ IF loc[c].op = "WriteConfigToChip" /\ ~EqualTo(loc[c].staged, registers')
                THEN Finish(c, [loc[c] EXCEPT !.rx = data], "integrity")
                ELSE Goto(c, "sm_get", HwEnter([loc[c] EXCEPT !.stage = "restore", !.rx = data,
                                                              !.mode = loc[c].currentMode]))

\* ReadSerial (foreground): serialStream.Read returns, muRead.Unlock, and the
\* caller goes on with what was read
RS_Read(c) ==
    /\ pc[c] = "rs_read"
    /\ muRead' = Nobody
    /\ \E r \in ReadOutcomes :
          IF loc[c].op = "ReadSerial"
          THEN /\ Finish(c, loc[c], IF r.err = "none" THEN "ok" ELSE "transport")
               /\ UNCHANGED <<registers, serialPortData, module>>
          ELSE IF r.err # "none"
          THEN /\ Finish(c, loc[c], "transport")
               /\ module' = IF loc[c].op = "NewModule" THEN "none" ELSE module
               /\ UNCHANGED <<registers, serialPortData>>
          ELSE Decode(c, r.data)
    /\ UNCHANGED <<calls, codec, envVars, ehVars, lineVars, syncVars, port, muBusy, onMsgCb>>

\* ------------------------------------------------ onAuxPinRiseEvent (edge handler)
\* the watcher hands the next rising edge to the handler, which loads auxAction;
\* ModeSwitch / Write: setAuxAction(actionRead) and the completion signal, which
\* blocks while the channel's buffer is full; Read: ReadSerial's muRead.Lock
EH_Start ==
    /\ ehPc = "idle"
    /\ edgeQ > 0
    /\ edgeQ' = edgeQ - 1
    /\ IF auxAction = actionModeSwitch
       THEN /\ auxAction' = actionRead
            /\ IF modeSwitchDone = 0
               THEN modeSwitchDone' = 1 /\ ehPc' = "notify"
               ELSE UNCHANGED modeSwitchDone /\ ehPc' = "ms_send"
            /\ UNCHANGED <<writeDone, muRead>>
       ELSE IF auxAction = actionWrite
       THEN /\ auxAction' = actionRead
            /\ IF writeDone = 0
               THEN writeDone' = 1 /\ ehPc' = "notify"
               ELSE UNCHANGED writeDone /\ ehPc' = "w_send"
            /\ UNCHANGED <<modeSwitchDone, muRead>>
       ELSE IF auxAction = actionRead
       THEN /\ IF muRead = Nobody
               THEN muRead' = EdgeHandler /\ ehPc' = "read"
               ELSE UNCHANGED muRead /\ ehPc' = "read_lock"
            /\ UNCHANGED <<auxAction, writeDone, modeSwitchDone>>
       ELSE /\ ehPc' = "notify"
            /\ UNCHANGED <<auxAction, writeDone, modeSwitchDone, muRead>>
    /\ UNCHANGED <<calls, codec, aux, lineVars, auxBusyWaitGroup, muAuxDone, serialVars, muBusy, bankVars,
                   module, pc, loc, ehCur, cbOut>>

\* modeSwitchDone <- true / writeDone <- true once the buffer has room
EH_Signal ==
    /\ ehPc \in {"ms_send", "w_send"}
    /\ IF ehPc = "ms_send"
       THEN modeSwitchDone = 0 /\ modeSwitchDone' = 1 /\ UNCHANGED writeDone
       ELSE writeDone = 0 /\ writeDone' = 1 /\ UNCHANGED modeSwitchDone
    /\ ehPc' = "notify"
    /\ UNCHANGED <<calls, codec, envVars, lineVars, auxAction, auxBusyWaitGroup, muAuxDone, serialVars,
                   muRead, muBusy, bankVars, module, pc, loc, ehCur, cbOut>>

\* the Read branch: muRead.Lock once the lock is free
EH_ReadLock ==
    /\ ehPc = "read_lock"
    /\ muRead = Nobody
    /\ muRead' = EdgeHandler
    /\ ehPc' = "read"
    /\ UNCHANGED <<calls, codec, envVars, lineVars, syncVars, serialVars, muBusy, bankVars, module, pc, loc,
                   ehCur, cbOut>>

\* the callback called, the bytes it gets and, for Module.onMessageHandler, what it
\* hands on to the module's user, with the outcome r they come from, for the outcome r of the background read: on an
\* error ReadSerial returns no bytes, and onMsgCb is called for len(data) > 0 only
Delivered(r) ==
    IF onMsgCb # NoCallback /\ r.err = "none" /\ Len(r.data) > 0
    THEN [to |-> onMsgCb, data |-> r.data,
          msg |-> IF onMsgCb = ModuleHandler THEN onMessageHandler(registers, r.data)
                  ELSE NoDelivery.msg,
          read |-> r]
    ELSE [NoDelivery EXCEPT !.read = r]

\* the Read branch passing what it read to saveConfig as well
EH_ReadSavesConfig ==
    /\ ehPc = "read"
    /\ muRead' = Nobody
    /\ \E r \in ReadOutcomes :
          /\ cbOut' = Delivered(r)
          /\ registers' = IF cbOut'.to = ModuleHandler /\ parseChipResponse(r.data).ok
                           THEN Update(registers, parseChipResponse(r.data).startAddr,
                                       parseChipResponse(r.data).params)
                           ELSE registers
    /\ ehPc' = "notify"
    /\ UNCHANGED <<calls, codec, envVars, lineVars, syncVars, serialVars, muBusy, onMsgCb, module, pc, loc,
                   ehCur>>

\* the Read branch: the read returns, muRead.Unlock, the message callback
EH_Read ==
    /\ ehPc = "read"
    /\ muRead' = Nobody
    /\ \E r \in ReadOutcomes : cbOut' = Delivered(r)
    /\ ehPc' = "notify"
    /\ UNCHANGED <<calls, codec, envVars, lineVars, syncVars, serialVars, muBusy, bankVars, module, pc, loc,
                   ehCur>>

\* the deferred auxDoneNotifyReceivers: muAuxDone.Lock and the first channel of
\* the range over the map (any entry); with an empty map it unlocks and returns
EH_NotifyLock ==
    /\ ehPc = "notify"
    /\ muAuxDone = Nobody
    /\ cbOut' = NoDelivery
    /\ IF auxBusyWaitGroup = {}
       THEN ehPc' = "idle" /\ UNCHANGED <<muAuxDone, ehCur>>
       ELSE /\ muAuxDone' = EdgeHandler
            /\ ehPc' = "send"
            /\ \E id \in auxBusyWaitGroup : ehCur' = id
    /\ UNCHANGED <<calls, codec, envVars, lineVars, auxAction, auxBusyWaitGroup, writeDone, modeSwitchDone,
                   serialVars, muRead, muBusy, bankVars, module, pc, loc>>

\* ch <- nil on the unbuffered channel ehCur: possible only while its caller is
\* receiving in registerAndWaitAUXDone; then close, delete, and the next entry
EH_Send ==
    /\ ehPc = "send"
    /\ \E c \in Callers :
          /\ pc[c] = "rw_wait" /\ loc[c].id = ehCur
          /\ Goto(c, IF InSetMode(loc[c]) THEN "sm_set" ELSE "ws_set",
                  [loc[c] EXCEPT !.free = "released"])
    /\ auxBusyWaitGroup' = auxBusyWaitGroup \ {ehCur}
    /\ IF auxBusyWaitGroup' = {}
       THEN muAuxDone' = Nobody /\ ehPc' = "idle" /\ ehCur' = 0
       ELSE /\ UNCHANGED <<muAuxDone, ehPc>>
            /\ \E id \in auxBusyWaitGroup' : ehCur' = id
    /\ UNCHANGED <<calls, codec, envVars, lineVars, auxAction, writeDone, modeSwitchDone, serialVars,
                   muRead, muBusy, bankVars, module, cbOut>>

\* RegisterOnMessageCb storing cb whatever is registered
CallRegisterOnMessageCbOverwrite(c, cb) ==
    /\ pc[c] = "idle" /\ calls < MaxCalls
    /\ onMsgCb' = cb
    /\ Finish(c, [LocInit EXCEPT !.op = "RegisterOnMessageCb", !.arg = cb], "ok")
    /\ calls' = calls + 1 /\ UNCHANGED codec
    /\ UNCHANGED <<envVars, ehVars, hwVars, registers, module>>

\* a caller calls HWHandler.RegisterOnMessageCb(cb)
CallRegisterOnMessageCb(c, cb) ==
    /\ pc[c] = "idle" /\ calls < MaxCalls
    /\ LET l == [LocInit EXCEPT !.op = "RegisterOnMessageCb", !.arg = cb]
       IN  IF onMsgCb # NoCallback
           THEN Finish(c, l, "duplicate") /\ UNCHANGED onMsgCb
           ELSE Finish(c, l, "ok") /\ onMsgCb' = cb
    /\ calls' = calls + 1 /\ UNCHANGED codec
    /\ UNCHANGED <<envVars, ehVars, hwVars, registers, module>>

\* ------------------------------------------------------------- Module calls
\* ConfigBuilder: NewConfigBuilder(chip).RSSIState(state)
ConfigBuilder(regs, state) ==
    [Copy(regs) EXCEPT ![REG3 + 1].enableRSSI = state]

\* NewModule: GetMode, RegisterOnMessageCb, then readChipRegisters' SetMode(Sleep)
CallNewModule(c) ==
    /\ pc[c] = "idle" /\ calls < MaxCalls
    /\ module = "none"
    /\ LET l == [LocInit EXCEPT !.op = "NewModule"]
       IN  IF ~Mode.ok
           THEN Finish(c, l, "undefined") /\ UNCHANGED <<onMsgCb, registers, module>>
           ELSE IF onMsgCb # NoCallback
           THEN Finish(c, l, "duplicate") /\ UNCHANGED <<onMsgCb, registers, module>>
           ELSE /\ onMsgCb' = ModuleHandler
                /\ registers' = newRegistersCollection
                /\ module' = "constructing"
                /\ Goto(c, "sm_get",
                        [l EXCEPT !.currentMode = Mode.mode, !.stage = "sleep",
                                  !.mode = ModeSleep])
    /\ calls' = calls + 1 /\ UNCHANGED codec
    /\ UNCHANGED <<envVars, ehVars, hwVars>>

\* a caller builds a configuration and calls WritePermanentConfig
CallWriteConfig(c, state) ==
    /\ pc[c] = "idle" /\ calls < MaxCalls
    /\ module = "ready"
    /\ Goto(c, "wc_start",
            [LocInit EXCEPT !.op = "WriteConfigToChip",
                            !.staged = ConfigBuilder(registers, state)])
    /\ calls' = calls + 1 /\ UNCHANGED codec
    /\ UNCHANGED <<envVars, ehVars, hwVars, bankVars, module>>


\* WriteConfigToChip without the EqualTo test at its start
WC_StartNoTest(c) ==
    /\ pc[c] = "wc_start"
    /\ IF ~Mode.ok THEN Finish(c, loc[c], "undefined")
       ELSE Goto(c, "sm_get",
                 [loc[c] EXCEPT !.currentMode = Mode.mode, !.stage = "sleep",
                                !.mode = ModeSleep])
    /\ UNCHANGED <<calls, codec, envVars, ehVars, hwVars, bankVars, module>>

\* WriteConfigToChip writing its frame without SetMode(ModeSleep) first
WC_StartNoSleep(c) ==
    /\ pc[c] = "wc_start"
    /\ IF EqualTo(loc[c].staged, registers) THEN Finish(c, loc[c], "noop")
       ELSE IF ~Mode.ok THEN Finish(c, loc[c], "undefined")
       ELSE Goto(c, "ws_lock",
                 [loc[c] EXCEPT !.currentMode = Mode.mode, !.stage = "write",
                                !.msg = getConfigSetRequest(FALSE, loc[c].staged)])
    /\ UNCHANGED <<calls, codec, envVars, ehVars, hwVars, bankVars, module>>

\* WriteConfigToChip: the EqualTo test, GetMode, then SetMode(Sleep)
WC_Start(c) ==
    /\ pc[c] = "wc_start"
    /\ IF EqualTo(loc[c].staged, registers) THEN Finish(c, loc[c], "noop")
       ELSE IF ~Mode.ok THEN Finish(c, loc[c], "undefined")
       ELSE Goto(c, "sm_get",
                 [loc[c] EXCEPT !.currentMode = Mode.mode, !.stage = "sleep",
                                !.mode = ModeSleep])
    /\ UNCHANGED <<calls, codec, envVars, ehVars, hwVars, bankVars, module>>

\* the locals of SendMessage / SendFixedMessage with arguments a writing bytes
SendLocals(op, a, bytes) ==
    [LocInit EXCEPT !.op = op, !.arg = a, !.currentMode = Mode.mode, !.msg = bytes]

\* SendMessage going on to WriteSerial whatever the mode
CallSendMessageUnguarded(c, message) ==
    /\ pc[c] = "idle" /\ calls < MaxCalls
    /\ module = "ready"
    /\ LET l == SendLocals("SendMessage", [message |-> message], message)
       IN  IF ~Mode.ok THEN Finish(c, l, "undefined")
           ELSE Goto(c, "ws_lock", l)
    /\ calls' = calls + 1 /\ UNCHANGED codec
    /\ UNCHANGED <<envVars, ehVars, hwVars, bankVars, module>>

\* Module.SendMessage: the mode test, then WriteSerial of the message bytes
CallSendMessage(c, message) ==
    /\ pc[c] = "idle" /\ calls < MaxCalls
    /\ module = "ready"
    /\ LET l == SendLocals("SendMessage", [message |-> message], message)
       IN  IF ~Mode.ok THEN Finish(c, l, "undefined")
           ELSE IF Mode.mode = ModeSleep \/ Mode.mode = ModePowerSave
           THEN Finish(c, l, "state")
           ELSE Goto(c, "ws_lock", l)
    /\ calls' = calls + 1 /\ UNCHANGED codec
    /\ UNCHANGED <<envVars, ehVars, hwVars, bankVars, module>>

\* Module.SendFixedMessage: the mode test, the transmission method test, then
\* WriteSerial of the address, the channel and the message bytes
CallSendFixedMessage(c, to, message) ==
    /\ pc[c] = "idle" /\ calls < MaxCalls
    /\ module = "ready"
    /\ LET msgBytes == <<to.addressHigh, to.addressLow, to.channel>> \o message
           l == SendLocals("SendFixedMessage", [to |-> to, message |-> message], msgBytes)
       IN  IF ~Mode.ok THEN Finish(c, l, "undefined")
           ELSE IF Mode.mode = ModeSleep \/ Mode.mode = ModePowerSave
           THEN Finish(c, l, "state")
           ELSE IF At(registers, REG3).transmissionMethod = TRANSMISSION_TRANSPARENT
           THEN Finish(c, l, "state")
           ELSE Goto(c, "ws_lock", l)
    /\ calls' = calls + 1 /\ UNCHANGED codec
    /\ UNCHANGED <<envVars, ehVars, hwVars, bankVars, module>>

\* ------------------------------------------------------------ specifications
\* the steps of the calls in progress
CallStep(c) ==
    \/ Return(c)
    \/ SM_GetMode(c) \/ SM_Lock(c) \/ SM_Reopen(c)
    \/ RW_Check(c) \/ RW_Register(c) \/ RW_Timeout(c)
    \/ SM_SetAction(c) \/ SM_Lines(c) \/ SM_Done(c) \/ SM_WaitTimeout(c)
    \/ WS_Lock(c) \/ WS_SetAction(c) \/ WS_Write(c) \/ WS_Done(c) \/ WS_WaitTimeout(c)
    \/ RS_Lock(c) \/ RS_Read(c)

EdgeHandlerStep ==
    EH_Start \/ EH_Signal \/ EH_ReadLock \/ EH_Read \/ EH_NotifyLock \/ EH_Send

Device == AuxFall \/ AuxRise

\* concurrent callers of the HWHandler
HandlerCall(c) ==
    \/ \E mode \in SetModeTargets : CallSetMode(c, mode)
    \/ CallWriteSerial(c)
    \/ CallReadSerial(c)
    \/ \E cfg \in SerialConfigs : StageSerialPortConfig(c, cfg)

Next ==
    \/ Device
    \/ EdgeHandlerStep
    \/ \E c \in Callers : (calls < MaxConcurrentCalls /\ HandlerCall(c)) \/ CallStep(c)

Spec == Init /\ [][Next]_vars

\* one caller of the HWHandler
SeqNext ==
    \/ Device
    \/ EdgeHandlerStep
    \/ HandlerCall(1) \/ CallStep(1)

SeqSpec == Init /\ [][SeqNext]_vars

\* one caller of the Module and of SetMode
ModuleCall(c) ==
    \/ CallNewModule(c)
    \/ \E state \in RSSIStates : CallWriteConfig(c, state)
    \/ \E m \in Messages : CallSendMessage(c, m)
    \/ \E mode \in SetModeTargets : CallSetMode(c, mode)

ModNext ==
    \/ Device
    \/ EdgeHandlerStep
    \/ ModuleCall(1) \/ WC_Start(1) \/ CallStep(1)

ModSpec == Init /\ [][ModNext]_vars

\* concurrent callers of a constructed Module: the state NewModule leaves when
\* the chip answers with its registers while in Sleep
InitReady ==
    /\ InitHandler
    /\ codec = NoCodecCall
    /\ onMsgCb = ModuleHandler
    /\ registers = Update(newRegistersCollection, ADD_H, <<1, 2, 240, 0, 5, 0>>)
    /\ serialPortData = [serialBaud |-> 9600, serialParityBit |-> ParityNone,
                         serialBaudStaged |-> 115200, serialParityBitStaged |-> ParityEven]
    /\ module = "ready"

TxCall(c) ==
    \/ \E state \in RSSIStates : CallWriteConfig(c, state)
    \/ \E mode \in SetModeTargets : CallSetMode(c, mode)

TxNext ==
    \/ Device
    \/ EdgeHandlerStep
    \/ \E c \in Callers : (calls < MaxConcurrentCalls /\ TxCall(c)) \/ WC_Start(c) \/ CallStep(c)

TxSpec == InitReady /\ [][TxNext]_vars

\* one caller sending messages through a constructed Module whose chip is set to
\* 115200 baud, even parity, and to transparent or to fixed transmission
InitSend ==
    /\ InitHandler
    /\ codec = NoCodecCall
    /\ onMsgCb = ModuleHandler
    /\ registers \in { Update(newRegistersCollection, ADD_H, <<1, 2, 240, 0, 5, 0>>),
                      Update(newRegistersCollection, ADD_H, <<1, 2, 240, 0, 5, 64>>) }
    /\ serialPortData = [serialBaud |-> 9600, serialParityBit |-> ParityNone,
                         serialBaudStaged |-> 115200, serialParityBitStaged |-> ParityEven]
    /\ module = "ready"

SendCall(c) ==
    \/ \E m \in Messages : CallSendMessage(c, m)
    \/ \E to \in FixedTargets, m \in Messages : CallSendFixedMessage(c, to, m)
    \/ \E mode \in SetModeTargets : CallSetMode(c, mode)

\* the steps of SetMode and WriteSerial
SendStep(c) ==
    \/ Return(c)
    \/ SM_GetMode(c) \/ SM_Lock(c) \/ SM_Reopen(c)
    \/ RW_Check(c) \/ RW_Register(c) \/ RW_Timeout(c)
    \/ SM_SetAction(c) \/ SM_Lines(c) \/ SM_Done(c) \/ SM_WaitTimeout(c)
    \/ WS_Lock(c) \/ WS_SetAction(c) \/ WS_Write(c) \/ WS_Done(c) \/ WS_WaitTimeout(c)

SendNext ==
    \/ Device
    \/ EH_Start \/ EH_Signal \/ EH_Read \/ EH_NotifyLock \/ EH_Send
    \/ SendCall(1) \/ SendStep(1)

SendSpec == InitSend /\ [][SendNext]_vars

\* concurrent callers of a constructed Module sending messages and switching modes
\* A mode check racing a mode switch takes three calls from the power-on
\* Sleep mode: switch to Normal, send, switch back.
MaxRaceCalls == 3

ConcSendNext ==
    \/ Device
    \/ EH_Start \/ EH_Signal \/ EH_Read \/ EH_NotifyLock \/ EH_Send
    \/ \E c \in Callers : (calls < MaxRaceCalls /\ SendCall(c)) \/ SendStep(c)

ConcSendSpec == InitReady /\ [][ConcSendNext]_vars

\* ------------------------------------------- register and codec functions
\* the functions of the register bank and of the codec applied to one input each
InitCodec ==
    /\ InitHandler
    /\ serialPortData = [serialBaud |-> 9600, serialParityBit |-> ParityNone,
                         serialBaudStaged |-> 9600, serialParityBitStaged |-> ParityNone]
    /\ onMsgCb = NoCallback
    /\ module = "none"
    /\ codec \in { [fn |-> "none", in |-> i, out |-> <<>>] : i \in CodecInputs }
    /\ registers = IF codec.in.kind = "builder" THEN codec.in.live ELSE newRegistersCollection

\* Register.SetValue(v) on a fresh register, then Register.GetValue()
ApplySetValue ==
    /\ codec.fn = "none" /\ codec.in.kind = "register"
    /\ LET a == codec.in.a
       IN  codec' = [codec EXCEPT
                        !.fn = "SetValue",
                        !.out = GetValue(a, SetValue(a, At(newRegistersCollection, a),
                                                     codec.in.v))]
    /\ UNCHANGED <<calls, envVars, ehVars, hwVars, bankVars, module, pc, loc>>

\* the register at address a after SetValue(vs[1]), ..., SetValue(vs[n])
RECURSIVE SetValues(_, _, _)
SetValues(a, r, vs) ==
    IF vs = <<>> THEN r
    ELSE SetValues(a, SetValue(a, r, Head(vs)), Tail(vs))

\* Register.SetValue called for each byte of the input on a fresh register, then
\* Register.GetValue()
ApplySetValues ==
    /\ codec.fn = "none" /\ codec.in.kind = "writes"
    /\ LET a == codec.in.a
           r == SetValues(a, At(newRegistersCollection, a), codec.in.vs)
       IN  codec' = [codec EXCEPT !.fn = "SetValues",
                                  !.out = [register |-> r, value |-> GetValue(a, r)]]
    /\ UNCHANGED <<calls, envVars, ehVars, hwVars, bankVars, module, pc, loc>>

\* Module.getConfigSetRequest(temporary, stagedRegisters)
ApplyGetConfigSetRequest ==
    /\ codec.fn = "none" /\ codec.in.kind = "bank"
    /\ codec' = [codec EXCEPT
                    !.fn = "getConfigSetRequest",
                    !.out = getConfigSetRequest(codec.in.temporary, codec.in.regs)]
    /\ UNCHANGED <<calls, envVars, ehVars, hwVars, bankVars, module, pc, loc>>

\* Module.parseChipResponse(data)
ApplyParseChipResponse ==
    /\ codec.fn = "none" /\ codec.in.kind = "data"
    /\ codec' = [codec EXCEPT
                    !.fn = "parseChipResponse",
                    !.out = parseChipResponse(codec.in.data)]
    /\ UNCHANGED <<calls, envVars, ehVars, hwVars, bankVars, module, pc, loc>>

\* Module.onMessageHandler(msg, nil)
ApplyOnMessageHandler ==
    /\ codec.fn = "none" /\ codec.in.kind = "message"
    /\ codec' = [codec EXCEPT
                    !.fn = "onMessageHandler",
                    !.out = onMessageHandler(codec.in.regs, codec.in.msg)]
    /\ UNCHANGED <<calls, envVars, ehVars, hwVars, bankVars, module, pc, loc>>

\* NewConfigBuilder(chip): stagedRegisters = chip.registers.Copy(), no setter called
NewConfigBuilder ==
    /\ codec.fn = "none" /\ codec.in.kind = "builder"
    /\ codec' = [codec EXCEPT !.fn = "ConfigBuilder",
                              !.out = [stagedRegisters |-> Copy(registers), setters |-> <<>>]]
    /\ UNCHANGED <<calls, envVars, ehVars, hwVars, bankVars, module, pc, loc>>

\* one more setter called on the builder
ApplySetter(s) ==
    /\ codec.fn = "ConfigBuilder" /\ Len(codec.out.setters) < MaxSetterCalls
    /\ codec' = [codec EXCEPT !.out = [stagedRegisters |-> Setter(s, @.stagedRegisters),
                                       setters |-> Append(@.setters, s)]]
    /\ UNCHANGED <<calls, envVars, ehVars, hwVars, bankVars, module, pc, loc>>

\* the commit's Module.saveConfig(data) of the bytes the chip answered with
ApplySaveConfig(data) ==
    /\ codec.fn = "ConfigBuilder"
    /\ codec' = [codec EXCEPT !.fn = "saveConfig"]
    /\ LET rsp == parseChipResponse(data)
       IN  registers' = IF rsp.ok THEN Update(registers, rsp.startAddr, rsp.params)
                        ELSE registers
    /\ UNCHANGED <<calls, envVars, ehVars, hwVars, onMsgCb, module, pc, loc>>

\* Module.updateSerialStreamConfig with the live Reg0 decoded from the byte v: the
\* (baud, parity) handed to StageSerialPortConfig
ApplyUpdateSerialStreamConfig ==
    /\ codec.fn = "none" /\ codec.in.kind = "register" /\ codec.in.a = REG0
    /\ codec' = [codec EXCEPT
                    !.fn = "updateSerialStreamConfig",
                    !.out = DerivedSerialConfig(
                                Update(newRegistersCollection, REG0, <<codec.in.v>>))]
    /\ UNCHANGED <<calls, envVars, ehVars, hwVars, bankVars, module, pc, loc>>

\* ConfigBuilder.WritePermanentConfig: WriteConfigToChip's EqualTo test on the
\* staged bank, and the SET frame a commit that passes it writes
ApplyWritePermanentConfig ==
    /\ codec.fn = "ConfigBuilder"
    /\ codec' = [codec EXCEPT
                    !.fn = "WriteConfigToChip",
                    !.out = [stagedRegisters |-> @.stagedRegisters,
                             setters |-> @.setters,
                             result |-> IF EqualTo(@.stagedRegisters, registers)
                                        THEN "noop" ELSE "write",
                             frame |-> getConfigSetRequest(FALSE, @.stagedRegisters)]]
    /\ UNCHANGED <<calls, envVars, ehVars, hwVars, bankVars, module, pc, loc>>

CodecNext ==
    \/ ApplySetValue \/ ApplyGetConfigSetRequest \/ ApplyParseChipResponse
    \/ ApplyOnMessageHandler
    \/ NewConfigBuilder
    \/ \E s \in SetterCalls : ApplySetter(s)
    \/ \E data \in RxData \cup { <<193, 0, 6, 1, 2, 96, 0, 200, 0>> } : ApplySaveConfig(data)
    \/ ApplySetValues
    \/ ApplyUpdateSerialStreamConfig
    \/ ApplyWritePermanentConfig

CodecSpec == InitCodec /\ [][CodecNext]_vars

\* the handler alone: callbacks are registered one call after the other while
\* the device raises edges and the edge handler reads and delivers
CbNext ==
    \/ Device
    \/ EH_Start \/ EH_Read \/ EH_NotifyLock
    \/ \E cb \in UserCallbacks \cup {ModuleHandler} : CallRegisterOnMessageCb(1, cb)
    \/ Return(1)

CbSpec == Init /\ [][CbNext]_vars

\* ------------------------------------------------------------------ claims
\* positions of WriteSerial / SetMode between muBusy.Lock and the unlock
CriticalPcs ==
    {"sm_reopen", "rw_check", "rw_reg", "rw_wait", "sm_set", "sm_lines", "sm_wait",
     "ws_set", "ws_write", "ws_wait"}

InCritical(c) == pc[c] \in CriticalPcs

\* C1: a caller is between muBusy.Lock and the unlock of WriteSerial / SetMode
\* (where it sets the action tag, writes, reopens the transport, drives the mode
\* lines) only while it holds muBusy, so no two callers are there together
C1_BusyLockExclusion ==
    /\ \A c \in Callers : InCritical(c) => muBusy = c
    /\ \A c, d \in Callers : InCritical(c) /\ InCritical(d) => c = d

\* one caller is in its critical section and another waits for muBusy
C1_Witness ==
    \E c, d \in Callers :
        c # d /\ InCritical(c) /\ pc[c] = "ws_wait" /\ pc[d] \in {"sm_lock", "ws_lock"}

\* the edge handler is sending on a channel nobody receives from: its caller
\* has left registerAndWaitAUXDone, and ids are never reused
HandlerStuck ==
    /\ ehPc = "send"
    /\ \A c \in Callers : ~(pc[c] = "rw_wait" /\ loc[c].id = ehCur)

\* C2: after a WriteSerial that timed out the handler keeps no residual lock and
\* no blocked party: muBusy is not held by a caller that has returned, and the
\* edge handler is not blocked on the channel of a caller that has returned
C2_TimeoutRecovery ==
    /\ \A c \in Callers : pc[c] \in {"idle", "done"} => muBusy # c
    /\ ~HandlerStuck

\* C3: no call of WriteSerial / SetMode blocks indefinitely: no caller waits in
\* registerAndWaitAUXDone for muAuxDone while its holder, the edge handler, can
\* never release it
C3_EveryCallReturns ==
    \A c \in Callers : ~(pc[c] = "rw_reg" /\ muAuxDone = EdgeHandler /\ HandlerStuck)

\* C4: a WriteSerial has written, and a SetMode has driven the mode lines, only
\* when its busy-free step read AUX high or was released by the broadcast; a
\* busy-free step that timed out is followed by no write and no drive
C4_ActOnlyWhenFree ==
    \A c \in Callers : loc[c].acted # "none" => loc[c].free \in {"free", "released"}

\* a write made after the rising-edge broadcast released the caller
C4_Witness ==
    \E c \in Callers : loc[c].acted = "wrote" /\ loc[c].free = "released"

\* the parties inside serialStream.Read of ReadSerial
Readers ==
    {c \in Callers : pc[c] = "rs_read"} \cup (IF ehPc = "read" THEN {EdgeHandler} ELSE {})

\* C5: at most one ReadSerial is reading, and it holds muRead; a caller blocked
\* in the busy-free wait of WriteSerial / SetMode does not hold muRead
C5_ReadExclusion ==
    /\ Cardinality(Readers) <= 1
    /\ Readers # {} => muRead \in Readers
    /\ \A c \in Callers : pc[c] \in {"rw_check", "rw_reg", "rw_wait"} => muRead # c

\* the background read is in progress while a caller holds muBusy and waits for
\* the busy line
C5_Witness ==
    /\ ehPc = "read" /\ muRead = EdgeHandler
    /\ \E c \in Callers : pc[c] = "rw_wait" /\ muBusy = c

\* a call of operation op by caller c has returned result res
Returned(c, op, res) == pc[c] = "done" /\ loc[c].op = op /\ loc[c].result = res

\* the (baud, parity) staged on the handler
StagedSerial ==
    [baud |-> serialPortData.serialBaudStaged, parity |-> serialPortData.serialParityBitStaged]

\* C6: when WriteConfigToChip has returned success, the live bank is EqualTo the
\* staged bank, the staged baud / parity are those derived from the live REG0,
\* and the chip is in the mode captured at the start of the call
C6_CommitPostState ==
    \A c \in Callers :
        Returned(c, "WriteConfigToChip", "ok") =>
            /\ EqualTo(loc[c].staged, registers)
            /\ StagedSerial = DerivedSerialConfig(registers)
            /\ Mode.ok /\ Mode.mode = loc[c].currentMode

\* a commit that changed the RSSI flag has returned success with the chip back
\* in a mode other than Sleep
C6_Witness ==
    \E c \in Callers :
        /\ Returned(c, "WriteConfigToChip", "ok")
        /\ loc[c].currentMode # ModeSleep
        /\ At(registers, REG3).enableRSSI = RSSI_ENABLE

\* C7: the SET frame of WriteConfigToChip and the GET frame of NewModule have
\* been written to the transport only with the chip in Sleep, whatever other
\* callers do meanwhile
C7_FrameOnlyInSleep ==
    \A c \in Callers :
        (/\ loc[c].op \in {"WriteConfigToChip", "NewModule"}
         /\ loc[c].stage = "write"
         /\ loc[c].acted = "wrote") => (Mode.ok /\ Mode.mode = ModeSleep)

\* C8: when WriteConfigToChip has returned the integrity error it has not
\* started SetMode(currentMode): its last hardware call is the read, and the
\* chip is in Sleep
C8_NoRestoreOnIntegrity ==
    \A c \in Callers :
        Returned(c, "WriteConfigToChip", "integrity") =>
            /\ loc[c].stage = "read"
            /\ ~EqualTo(loc[c].staged, registers)
            /\ Mode.ok /\ Mode.mode = ModeSleep

\* the integrity error of a commit that started in a mode other than Sleep
C8_Witness ==
    \E c \in Callers :
        /\ Returned(c, "WriteConfigToChip", "integrity")
        /\ loc[c].currentMode # ModeSleep
        /\ Mode.mode = ModeSleep

\* the values of everything behind the HWHandler and of the live bank
Hardware ==
    <<m0, m1, auxAction, auxBusyWaitGroup, writeDone, modeSwitchDone, muAuxDone, muRead,
      muBusy, serialPortData, port, registers>>

\* C9: the step of WriteConfigToChip that finds the staged bank EqualTo the
\* live bank returns the no-op error, starts no hardware call and changes
\* nothing behind the handler, nor the live bank
C9_NoopContactsNothing ==
    [][\A c \in Callers :
          (pc[c] = "wc_start" /\ EqualTo(loc[c].staged, registers) /\ pc'[c] # "wc_start") =>
              /\ pc'[c] = "done"
              /\ loc'[c].result = "noop"
              /\ loc'[c].stage = "none"
              /\ Hardware' = Hardware]_vars

\* the no-op error has been returned
C9_Witness ==
    \E c \in Callers :
        /\ Returned(c, "WriteConfigToChip", "noop")
        /\ loc[c].stage = "none"
        /\ EqualTo(loc[c].staged, registers)

\* C10: when SetMode(m), m other than Sleep, has switched the mode and returned
\* success, the transport is open with the staged baud / parity
C10_LeaveSleepSerial ==
    \A c \in Callers :
        (/\ Returned(c, "SetMode", "ok")
         /\ loc[c].mode # ModeSleep
         /\ loc[c].acted = "drove") => port = StagedSerial

\* the configuration command mode needs
SleepSerial == [baud |-> 9600, parity |-> ParityNone]

\* C11: when SetMode(Sleep) has returned success the transport is open at 9600
\* baud without parity, and no step of the call changes the staged baud / parity
C11_SleepForcesSerial ==
    [][\A c \in Callers :
          (loc'[c].op = "SetMode" /\ loc'[c].mode = ModeSleep) =>
              /\ (pc[c] \notin {"idle", "done"} => StagedSerial' = StagedSerial)
              /\ (pc'[c] = "done" /\ loc'[c].result = "ok" => port' = SleepSerial)]_vars

\* levels a line read may be asked about: the binary ones and one more
LineValues == 0..2

\* the levels of (M0, M1) each mode stands for
ModeLevels ==
    (ModeNormal :> <<0, 0>>) @@ (ModeWakeUp :> <<1, 0>>) @@
    (ModePowerSave :> <<0, 1>>) @@ (ModeSleep :> <<1, 1>>)

\* C12: when SetMode(m) has returned success the mode lines are at m's levels
\* and GetMode returns m; GetMode returns the one mode of every pair of binary
\* levels and the undefined-mode error for any other pair
C12_ModeLineBijection ==
    /\ \A c \in Callers :
          Returned(c, "SetMode", "ok") =>
              /\ <<m0, m1>> = ModeLevels[loc[c].mode]
              /\ Mode = [ok |-> TRUE, mode |-> loc[c].mode]
    /\ \A a, b \in LineValues :
          LET hit == {mode \in Modes : ModeLevels[mode] = <<a, b>>}
          IN  IF a \in {0, 1} /\ b \in {0, 1}
              THEN /\ Cardinality(hit) = 1
                   /\ GetMode(a, b).ok /\ GetMode(a, b).mode \in hit
              ELSE ~GetMode(a, b).ok

\* a SetMode(PowerSave) that drove the lines has returned success
C12_Witness ==
    \E c \in Callers :
        /\ Returned(c, "SetMode", "ok")
        /\ loc[c].mode = ModePowerSave /\ loc[c].acted = "drove"

\* C13: the step of SetMode(target) that finds the chip in the target mode ends
\* the call with success: the caller does not go on to muBusy.Lock, and the step
\* changes nothing behind the handler (locks, wait group, action tag, mode
\* lines, transport)
C13_SetModeNoop ==
    [][\A c \in Callers :
          (/\ pc[c] = "sm_get" /\ pc'[c] # "sm_get"
           /\ Mode.ok /\ Mode.mode = loc[c].mode) =>
              /\ loc[c].op = "SetMode" => (pc'[c] = "done" /\ loc'[c].result = "ok")
              /\ pc'[c] \notin {"sm_lock", "sm_reopen", "rw_check"}
              /\ loc'[c].free = "none" /\ loc'[c].acted = "none"
              /\ Hardware' = Hardware]_vars

\* a SetMode has returned success without a busy-free step, while another
\* caller holds the busy lock
C13_Witness ==
    \E c, d \in Callers :
        /\ Returned(c, "SetMode", "ok")
        /\ loc[c].free = "none" /\ loc[c].acted = "none"
        /\ Mode.mode = loc[c].mode
        /\ muBusy = d /\ d # c

\* the bytes a send call has to write: the message, after the destination for
\* a fixed message
SendBytes(l) ==
    IF l.op = "SendFixedMessage"
    THEN <<l.arg.to.addressHigh, l.arg.to.addressLow, l.arg.to.channel>> \o l.arg.message
    ELSE l.arg.message

\* the send call with locals l is refused: the chip is in Sleep or PowerSave, or
\* a fixed message is sent while the live bank says Transparent
SendRefused(l) ==
    \/ l.currentMode \in {ModeSleep, ModePowerSave}
    \/ /\ l.op = "SendFixedMessage"
       /\ At(registers, REG3).transmissionMethod = TRANSMISSION_TRANSPARENT

\* C14: a SendMessage / SendFixedMessage that is refused has returned the state
\* error without entering WriteSerial; one that is not refused does not return
\* the state error, and what it writes is exactly the bytes it has to
C14_SendGuards ==
    \A c \in Callers :
        loc[c].op \in {"SendMessage", "SendFixedMessage"} =>
            IF SendRefused(loc[c])
            THEN /\ Returned(c, loc[c].op, "state")
                 /\ loc[c].free = "none" /\ loc[c].acted = "none"
            ELSE /\ loc[c].result # "state"
                 /\ loc[c].acted = "wrote" => loc[c].msg = SendBytes(loc[c])

\* a fixed message has been written: destination, channel, then the message
C14_Witness ==
    \E c \in Callers :
        /\ loc[c].op = "SendFixedMessage" /\ loc[c].acted = "wrote"
        /\ loc[c].msg = <<0, 3, 23, 72, 105>>

\* the GetValue of the registers 0..5 of a bank
ReadableValues(regs) == [i \in 1..ReadableRegisters |-> GetValue(i - 1, regs[i])]

\* C15: NewModule has written its frame with the chip in Sleep, and the frame
\* is [0xC1, 0x00, 0x06]; when NewModule has returned success the chip is in the
\* mode read at the start and the staged baud / parity are those of the live
\* REG0; for the response [0xC1, 0, 6, 1, 2, 0x60, 0, 5, 0] the registers 0..5
\* read 1, 2, 0x60, 0, 5, 0, the crypto registers are as constructed and the
\* staged configuration is 9600 baud without parity
C15_Construction ==
    \A c \in Callers :
        loc[c].op = "NewModule" =>
            /\ (loc[c].stage = "write" /\ loc[c].acted = "wrote") =>
                   /\ Mode = [ok |-> TRUE, mode |-> ModeSleep]
                   /\ loc[c].msg = <<193, 0, 6>>
            /\ Returned(c, "NewModule", "ok") =>
                   /\ loc[c].msg = <<193, 0, 6>>
                   /\ Mode = [ok |-> TRUE, mode |-> loc[c].currentMode]
                   /\ StagedSerial = DerivedSerialConfig(registers)
                   /\ loc[c].rx = <<193, 0, 6, 1, 2, 96, 0, 5, 0>> =>
                          /\ ReadableValues(registers) = <<1, 2, 96, 0, 5, 0>>
                          /\ At(registers, CRYPT_H) = At(newRegistersCollection, CRYPT_H)
                          /\ At(registers, CRYPT_L) = At(newRegistersCollection, CRYPT_L)
                          /\ StagedSerial = [baud |-> 9600, parity |-> ParityNone]

\* NewModule, started in Normal mode, has returned success on that response
C15_Witness ==
    \E c \in Callers :
        /\ Returned(c, "NewModule", "ok")
        /\ loc[c].rx = <<193, 0, 6, 1, 2, 96, 0, 5, 0>>
        /\ loc[c].currentMode = ModeNormal

\* C16: when NewModule has returned an error nothing of the attempt is left on
\* the handler: no message callback is registered, and the chip is in the mode
\* read at the start of the attempt
C16_NoPartialConstruction ==
    \A c \in Callers :
        (pc[c] = "done" /\ loc[c].op = "NewModule" /\ loc[c].result # "ok") =>
            /\ module = "none"
            /\ onMsgCb = NoCallback
            /\ loc[c].result \notin {"undefined", "duplicate"} =>
                   Mode = [ok |-> TRUE, mode |-> loc[c].currentMode]

\* the crypto registers of a bank both hold 0
NoKey(regs) == At(regs, CRYPT_H).value = 0 /\ At(regs, CRYPT_L).value = 0

\* C17: the SET frame is [command, 0x00, param_count, params...]: command 0xC2
\* when temporary and 0xC0 otherwise, every other byte the same for both; 9
\* bytes with param_count 6 when both crypto registers hold 0, else 11 bytes
\* with param_count 8; the parameters of registers 0..5 are their values
C17_SetFrameLayout ==
    codec.fn = "getConfigSetRequest" =>
        LET regs == codec.in.regs
            frame == codec.out
            n == IF NoKey(regs) THEN 6 ELSE 8
        IN  /\ Len(frame) = n + 3
            /\ Len(frame) = IF NoKey(regs) THEN 9 ELSE 11
            /\ frame[1] = IF codec.in.temporary THEN 194 ELSE 192
            /\ frame[2] = 0
            /\ frame[3] = n
            /\ \A i \in 1..6 : frame[3 + i] = GetValue(i - 1, regs[i])
            /\ SubSeq(frame, 2, Len(frame))
                  = SubSeq(getConfigSetRequest(~codec.in.temporary, regs), 2, Len(frame))

\* the temporary SET frame of a bank with a key has been encoded
C17_Witness ==
    /\ codec.fn = "getConfigSetRequest"
    /\ codec.in.temporary /\ ~NoKey(codec.in.regs)
    /\ Len(codec.out) = 11 /\ codec.out[1] = 194

\* C18: the SET frame of a bank with a non-zero key has all 8 register values,
\* the 7th and 8th parameter being the stored CryptHigh and CryptLow values
C18_KeyWritten ==
    (codec.fn = "getConfigSetRequest" /\ ~NoKey(codec.in.regs)) =>
        /\ Len(codec.out) = 11 /\ codec.out[3] = 8
        /\ codec.out[10] = At(codec.in.regs, CRYPT_H).value
        /\ codec.out[11] = At(codec.in.regs, CRYPT_L).value

\* C19: parsing fails on fewer than 4 bytes and on a declared parameter count
\* above the bytes received after the 3-byte header; otherwise it succeeds and
\* the parameters are the first param_count bytes after the header
C19_ParseWellFramed ==
    codec.fn = "parseChipResponse" =>
        LET data == codec.in.data
        IN  IF Len(data) < 4 THEN ~codec.out.ok
            ELSE IF data[3] > Len(data) - 3 THEN ~codec.out.ok
            ELSE /\ codec.out.ok
                 /\ codec.out.params = SubSeq(data, 4, 3 + data[3])

\* C20: SetValue(v) followed by GetValue() gives v, for REG0, REG1 and REG3
C20_RegisterRoundTrip ==
    codec.fn = "SetValue" => codec.out = codec.in.v

\* C21: with the RSSI flag of the live bank enabled a received buffer of 2 or
\* more bytes is delivered as payload = all bytes but the last, RSSI = the last
\* byte, and a shorter one as an error; with the flag disabled the payload is
\* the whole buffer and the RSSI is 0
C21_MessageDecode ==
    codec.fn = "onMessageHandler" =>
        LET msg == codec.in.msg
            n == Len(msg)
        IN  IF At(codec.in.regs, REG3).enableRSSI = RSSI_ENABLE
            THEN IF n < 2 THEN codec.out.err
                 ELSE /\ ~codec.out.err
                      /\ codec.out.payload = [i \in 1..(n - 1) |-> msg[i]]
                      /\ codec.out.rssi = msg[n]
            ELSE /\ ~codec.out.err
                 /\ codec.out.payload = msg
                 /\ codec.out.rssi = 0

\* the buffer "ABC" followed by 200 has been delivered with the flag enabled
C21_Witness ==
    /\ codec.fn = "onMessageHandler"
    /\ codec.in.msg = <<65, 66, 67, 200>>
    /\ codec.out = [payload |-> <<65, 66, 67>>, rssi |-> 200, err |-> FALSE]

\* C22: the first RegisterOnMessageCb succeeds and stores its callback, every later one
\* returns the "already registered" error; the callback once registered is never
\* replaced, and the edge handler delivers received data to that callback
C22_Registers(c) ==
    (pc[c] = "idle" /\ pc'[c] = "done" /\ loc'[c].op = "RegisterOnMessageCb") =>
        IF onMsgCb = NoCallback
        THEN loc'[c].result = "ok" /\ onMsgCb' = loc'[c].arg
        ELSE loc'[c].result = "duplicate"

C22_OneCallback ==
    [][ /\ \A c \in Callers : C22_Registers(c)
        /\ (onMsgCb # NoCallback => onMsgCb' = onMsgCb)
        /\ ((ehPc = "read" /\ cbOut'.to # NoCallback) => cbOut'.to = onMsgCb)
      ]_vars

\* a second registration was refused and data was then delivered to the first callback
C22_Witness ==
    /\ pc[1] = "done" /\ loc[1].op = "RegisterOnMessageCb"
    /\ loc[1].result = "duplicate" /\ loc[1].arg = 3
    /\ onMsgCb = 2
    /\ cbOut.to = 2

\* C23: NewConfigBuilder stages a copy EqualTo the live bank; a setter changes only
\* its own field of the staged copy (Channel stores the clamped value) and never the
\* live bank; the live bank changes only when the commit decodes the chip's response
C23_Fields(name) ==
    CASE name = "Address" -> {<<ADD_H, "address">>, <<ADD_L, "address">>}
      [] name = "SerialBaudRate" -> {<<REG0, "baudRate">>}
      [] name = "SerialParityBit" -> {<<REG0, "parityBit">>}
      [] name = "AirDataRate" -> {<<REG0, "adRate">>}
      [] name = "SubPacketLength" -> {<<REG1, "subPacket">>}
      [] name = "RSSIAmbientNoiseState" -> {<<REG1, "ambientNoiseRSSI">>}
      [] name = "TransmittingPower" -> {<<REG1, "transmittingPower">>}
      [] name = "Channel" -> {<<REG2, "channel">>}
      [] name = "RSSIState" -> {<<REG3, "enableRSSI">>}
      [] name = "TransmissionMethod" -> {<<REG3, "transmissionMethod">>}
      [] name = "LBTState" -> {<<REG3, "lbtEnable">>}
      [] name = "WORCycle" -> {<<REG3, "worCycle">>}
      [] name = "Crypt" -> {<<CRYPT_H, "value">>, <<CRYPT_L, "value">>}

C23_Value(s, a) ==
    IF s.name = "Channel" THEN (IF s.v1 > 80 THEN 80 ELSE s.v1)
    ELSE IF a \in {ADD_L, CRYPT_L} THEN s.v2
    ELSE s.v1

C23_SetterStep ==
    (codec.fn = "ConfigBuilder" /\ codec'.fn = "ConfigBuilder" /\ codec' # codec) =>
        LET old == codec.out.stagedRegisters
            new == codec'.out.stagedRegisters
            s == codec'.out.setters[Len(codec'.out.setters)]
        IN  /\ registers' = registers
            /\ \A i \in 1..Len(old) : \A f \in DOMAIN old[i] :
                   new[i][f] = IF <<i - 1, f>> \in C23_Fields(s.name)
                               THEN C23_Value(s, i - 1)
                               ELSE old[i][f]

C23_BuilderIsolation ==
    [][ /\ (codec.fn = "none" /\ codec'.fn = "ConfigBuilder") =>
               /\ EqualTo(codec'.out.stagedRegisters, registers)
               /\ codec'.out.stagedRegisters = registers
               /\ registers' = registers
        /\ C23_SetterStep
        /\ (registers' # registers => codec.fn = "ConfigBuilder" /\ codec'.fn = "saveConfig")
      ]_vars

\* two setters were called on a builder made from a decoded bank: the staged copy
\* differs from the live bank, which is what it was at creation
C23_Witness ==
    /\ codec.fn = "ConfigBuilder"
    /\ codec.out.setters = << [name |-> "SerialBaudRate", v1 |-> 96, v2 |-> 0],
                              [name |-> "Channel", v1 |-> 200, v2 |-> 0] >>
    /\ codec.in.live = Update(newRegistersCollection, ADD_H, <<1, 2, 240, 0, 5, 128>>)
    /\ registers = codec.in.live
    /\ At(codec.out.stagedRegisters, REG0) = [baudRate |-> 96, parityBit |-> 16, adRate |-> 0]
    /\ At(codec.out.stagedRegisters, REG2).channel = 80
    /\ ~EqualTo(codec.out.stagedRegisters, registers)

\* C24: after any SetValue calls on CryptH / CryptL, GetValue() returns 0 whatever
\* key the register holds
C24_CryptWriteOnly ==
    (codec.fn = "SetValues" /\ codec.in.a \in {CRYPT_H, CRYPT_L}) => codec.out.value = 0

\* CryptH holds the key 171 written after the key 1, and GetValue() gave 0
C24_Witness ==
    /\ codec.fn = "SetValues" /\ codec.in.a = CRYPT_H /\ codec.in.vs = <<1, 171>>
    /\ codec.out.register.value = 171
    /\ codec.out.value = 0

\* C25: Reg2.SetValue(v) then GetValue() gives 80 for v > 80 and v otherwise; the
\* channel held by a register, by a builder's staged bank (Channel setter) and by
\* the live bank (decoded response) is within 0..80
C25_Clamp(v) == IF v > 80 THEN 80 ELSE v

C25_ChannelClamp ==
    /\ (codec.fn = "SetValues" /\ codec.in.a = REG2) =>
            /\ codec.out.value = C25_Clamp(codec.in.vs[Len(codec.in.vs)])
            /\ codec.out.register.channel \in 0..80
    /\ (codec.fn = "ConfigBuilder") =>
            /\ At(codec.out.stagedRegisters, REG2).channel \in 0..80
            /\ \A n \in 1..Len(codec.out.setters) :
                   (n = Len(codec.out.setters) /\ codec.out.setters[n].name = "Channel") =>
                       GetValue(REG2, At(codec.out.stagedRegisters, REG2))
                           = C25_Clamp(codec.out.setters[n].v1)
    /\ At(registers, REG2).channel \in 0..80

\* SetValue(200) on Reg2 read back as 80
C25_Witness ==
    /\ codec.fn = "SetValues" /\ codec.in.a = REG2 /\ codec.in.vs = <<200>>
    /\ codec.out.value = 80

\* C26: an edge is handled by the tag read at its start - ModeSwitch / Write: the
\* tag becomes Read and the one completion signal of that kind is sent, Read: one
\* read and no signal, PowerReset: neither - and the tag is Read when a caller
\* takes delivery of a completion signal
C26_Dispatch ==
    (ehPc = "idle" /\ ehPc' # "idle") =>
        CASE auxAction = actionModeSwitch ->
                /\ auxAction' = actionRead /\ writeDone' = writeDone /\ muRead' = muRead
                /\ \/ modeSwitchDone' = modeSwitchDone + 1 /\ ehPc' = "notify"
                   \/ modeSwitchDone' = modeSwitchDone /\ ehPc' = "ms_send"
          [] auxAction = actionWrite ->
                /\ auxAction' = actionRead /\ modeSwitchDone' = modeSwitchDone
                /\ muRead' = muRead
                /\ \/ writeDone' = writeDone + 1 /\ ehPc' = "notify"
                   \/ writeDone' = writeDone /\ ehPc' = "w_send"
          [] auxAction = actionRead ->
                /\ ehPc' \in {"read", "read_lock"}
                /\ UNCHANGED <<auxAction, writeDone, modeSwitchDone>>
          [] OTHER ->
                /\ ehPc' = "notify"
                /\ UNCHANGED <<auxAction, writeDone, modeSwitchDone, muRead>>

C26_Blocked ==
    /\ (ehPc = "ms_send" /\ ehPc' # ehPc) =>
            modeSwitchDone' = modeSwitchDone + 1 /\ writeDone' = writeDone /\ ehPc' = "notify"
    /\ (ehPc = "w_send" /\ ehPc' # ehPc) =>
            writeDone' = writeDone + 1 /\ modeSwitchDone' = modeSwitchDone /\ ehPc' = "notify"
    /\ (ehPc \in {"read", "read_lock", "notify", "send"}) =>
            (writeDone' <= writeDone /\ modeSwitchDone' <= modeSwitchDone)

C26_Delivery ==
    (modeSwitchDone' < modeSwitchDone \/ writeDone' < writeDone) => auxAction = actionRead

C26_EdgeDispatch == [][C26_Dispatch /\ C26_Blocked /\ C26_Delivery]_vars

C26_DispatchOnly == [][C26_Dispatch /\ C26_Blocked]_vars

\* C27: the broadcast ending a handler invocation notifies every waiter of the
\* Pending Waiter set and clears it: each entry it has to notify has its caller
\* receiving, each notification releases that caller and removes that entry, and
\* the set is empty when the handler finishes
C27_Waiting(id) == \E c \in Callers : pc[c] = "rw_wait" /\ loc[c].id = id

C27_Notifies ==
    (ehPc = "send" /\ auxBusyWaitGroup' # auxBusyWaitGroup) =>
        /\ auxBusyWaitGroup' = auxBusyWaitGroup \ {ehCur}
        /\ \E c \in Callers :
              /\ pc[c] = "rw_wait" /\ loc[c].id = ehCur
              /\ pc'[c] # "rw_wait" /\ loc'[c].free = "released"

C27_BroadcastRelease ==
    [][ /\ (ehPc' = "send" => \A id \in auxBusyWaitGroup' : C27_Waiting(id)')
        /\ C27_Notifies
        /\ (ehPc # "idle" /\ ehPc' = "idle" => auxBusyWaitGroup' = {})
      ]_vars

\* C28: every entry of the Pending Waiter set belongs to a caller blocked in the
\* busy-free wait: it is removed by the broadcast or when the caller's wait expires
C28_WaiterLifecycle ==
    \A id \in auxBusyWaitGroup : \E c \in Callers : pc[c] = "rw_wait" /\ loc[c].id = id

\* C29: a rising edge handled after a caller read the busy line as busy releases
\* that caller: no broadcast goes by while a caller that has read AUX low has not
\* yet registered its channel, and a registered caller is released by the broadcast
C29_NoLostWakeup ==
    [][ (ehPc = "notify" /\ ehPc' # "notify") =>
            /\ \A c \in Callers : pc[c] # "rw_reg"
            /\ \A c \in Callers : pc[c] = "rw_wait" => ehPc' = "send"
      ]_vars

\* C30: the action tag is Read whenever the busy lock is free, that is whenever no
\* WriteSerial / SetMode is in flight, also after such a call returned an error
C30_SteadyStateTag ==
    muBusy = Nobody => auxAction = actionRead

\* C31: an edge handled with tag Read calls the registered callback with the
\* decoded message when the read produced bytes, with the read's error when the
\* read failed with an error other than end-of-stream, and not at all for an
\* end-of-stream or when no callback is registered
C31_BackgroundDelivery ==
    [][ (ehPc = "read" /\ ehPc' = "notify") =>
            LET r == cbOut'.read
            IN  IF onMsgCb = NoCallback \/ r.err = "eof"
                THEN cbOut'.to = NoCallback
                ELSE /\ cbOut'.to = onMsgCb
                     /\ r.err = "none" => cbOut'.data = r.data /\ Len(r.data) > 0
      ]_vars

\* C32: for every byte of the live Reg0 the staged baud is the one of the eight
\* rates 1200..115200 that bits 7-5 select and the staged parity is one of None,
\* Odd, Even selected by bits 4-3
C32_Baud(v) ==
    CASE v \div 32 = 0 -> 1200 [] v \div 32 = 1 -> 2400 [] v \div 32 = 2 -> 4800
      [] v \div 32 = 3 -> 9600 [] v \div 32 = 4 -> 19200 [] v \div 32 = 5 -> 38400
      [] v \div 32 = 6 -> 57600 [] v \div 32 = 7 -> 115200

C32_SerialDerivation ==
    codec.fn = "updateSerialStreamConfig" =>
        /\ codec.out.baud = C32_Baud(codec.in.v)
        /\ codec.out.parity \in {ParityNone, ParityOdd, ParityEven}
        /\ ((codec.in.v \div 8) % 4 = 1) => codec.out.parity = ParityOdd
        /\ ((codec.in.v \div 8) % 4 = 2) => codec.out.parity = ParityEven
        /\ ((codec.in.v \div 8) % 4 = 0) => codec.out.parity = ParityNone

\* C33: during a WriteConfigToChip call the live bank and the staged serial
\* configuration change only in the step that decodes a response that parsed; a
\* call that failed before (mode read, Sleep entry, SET write, response read,
\* framing error) has left both as they were
C33_Decodes(c) ==
    /\ pc[c] = "rs_read" /\ loc[c].stage = "read"
    /\ parseChipResponse(loc'[c].rx).ok
    /\ loc'[c].result \notin {"framing", "transport"}

C33_FailureLeavesBank ==
    [][ \A c \in Callers :
            (loc[c].op = "WriteConfigToChip" /\ pc[c] \notin {"idle", "done"}) =>
                ((registers' # registers \/ StagedSerial' # StagedSerial) => C33_Decodes(c))
      ]_vars

\* a commit enabling the RSSI flag has failed on a response that does not parse,
\* and the live bank still has the flag disabled
C33_Witness ==
    \E c \in Callers :
        /\ Returned(c, "WriteConfigToChip", "framing")
        /\ loc[c].rx = <<65>>
        /\ At(loc[c].staged, REG3).enableRSSI = RSSI_ENABLE
        /\ At(registers, REG3).enableRSSI = RSSI_DISABLE

\* C34: the edge handler is never left waiting for a receiver that is not there:
\* when it sends a waiter notification the waiter's caller is receiving, and when
\* it waits to send a completion signal a caller is waiting for that signal
C34_HandlerCompletes ==
    /\ ehPc = "send" => \E c \in Callers : pc[c] = "rw_wait" /\ loc[c].id = ehCur
    /\ ehPc = "ms_send" => \E c \in Callers : pc[c] = "sm_wait"
    /\ ehPc = "w_send" => \E c \in Callers : pc[c] = "ws_wait"

\* the handler waiting to send a completion signal into the full channel while
\* no call is in flight
C34_BlockedOnSignal ==
    ~(ehPc \in {"ms_send", "w_send"} /\ \A c \in Callers : pc[c] \in {"idle", "done"})

\* C35: a completion signal is consumed only by the call it was produced for: the
\* edge handler produces write-done (mode-switch-done) only while a call that has
\* written (driven the lines) is waiting for it, and a call that stops waiting
\* without the signal leaves none behind
C35_Produced ==
    /\ (writeDone' > writeDone \/ (ehPc # "w_send" /\ ehPc' = "w_send")) =>
            \E c \in Callers : pc[c] = "ws_wait"
    /\ (modeSwitchDone' > modeSwitchDone \/ (ehPc # "ms_send" /\ ehPc' = "ms_send")) =>
            \E c \in Callers : pc[c] = "sm_wait"

C35_NoneLeft ==
    \A c \in Callers :
        /\ (pc[c] = "ws_wait" /\ pc'[c] # "ws_wait" /\ writeDone' = writeDone) =>
                (writeDone = 0 /\ ehPc # "w_send")
        /\ (pc[c] = "sm_wait" /\ pc'[c] # "sm_wait" /\ modeSwitchDone' = modeSwitchDone) =>
                (modeSwitchDone = 0 /\ ehPc # "ms_send")

C35_NoStaleCompletion == [][C35_Produced /\ C35_NoneLeft]_vars

\* C36: the active baud / parity the handler records are those the transport is
\* open with
C36_ActiveSerialIsPort ==
    port = [baud |-> serialPortData.serialBaud, parity |-> serialPortData.serialParityBit]

\* C37: the bytes of a SendMessage / SendFixedMessage have been written to the
\* transport only with the chip in Normal or WakeUp mode, whatever other callers
\* do meanwhile
C37_SendOnlyWhenTransmitting ==
    \A c \in Callers :
        (/\ loc[c].op \in {"SendMessage", "SendFixedMessage"}
         /\ pc[c] = "ws_wait"
         /\ loc[c].acted = "wrote") => (Mode.ok /\ Mode.mode \in {ModeNormal, ModeWakeUp})

\* C38: the transport is closed and reopened only by the step of a mode switch
\* that holds the busy lock and has the read lock to itself: no ReadSerial, of a
\* caller or of the edge handler, is in progress in that step, and no other
\* caller is at WriteSerial's transport write
C38_InUse(c) ==
    \/ ehPc = "read"
    \/ \E d \in Callers : pc[d] = "rs_read"
    \/ \E d \in Callers \ {c} : pc[d] \in {"ws_set", "ws_write", "ws_wait"}

C38_ReopenExclusive ==
    [][/\ port' # port => \E c \in Callers : pc[c] = "sm_reopen" /\ pc'[c] = "rw_check"
       /\ \A c \in Callers :
             (pc[c] = "sm_reopen" /\ pc'[c] # "sm_reopen")
                => (muBusy = c /\ muRead = Nobody /\ ~C38_InUse(c))]_vars

\* a mode switch has reopened the port and a caller's ReadSerial is in progress on it
C38_Witness ==
    \E c, d \in Callers :
        /\ pc[c] = "rw_check" /\ InSetMode(loc[c])
        /\ port # [baud |-> 9600, parity |-> ParityNone]
        /\ pc[d] = "rs_read"

\* C39: no step of the edge handler changes the live register bank, the step
\* that reads a message and decodes it for the callback included; the bank
\* changes only when NewModule sets the module up and when NewModule or
\* WriteConfigToChip decodes the chip's response
C39_BankWriter(c) ==
    \/ pc[c] = "idle" /\ loc'[c].op = "NewModule"
    \/ pc[c] = "rs_read" /\ loc[c].op \in {"NewModule", "WriteConfigToChip"}

C39_BackgroundLeavesBank ==
    [][/\ <<ehPc, ehCur, cbOut>>' # <<ehPc, ehCur, cbOut>> => registers' = registers
       /\ registers' # registers => \E c \in Callers : C39_BankWriter(c)]_vars

\* the module's handler has decoded a message against a bank read from the chip
C39_Witness ==
    /\ cbOut.to = ModuleHandler
    /\ Len(cbOut.msg.payload) > 0
    /\ registers # newRegistersCollection

\* C40: a commit whose builder had only the Crypt setter called, with a key that
\* differs from the one stored in the live bank, is not answered with the no-op
\* error: WriteConfigToChip goes on to write the 11-byte SET frame
C40_KeyOnly ==
    /\ codec.fn = "WriteConfigToChip"
    /\ Len(codec.out.setters) > 0
    /\ \A i \in 1..Len(codec.out.setters) : codec.out.setters[i].name = "Crypt"
    /\ \/ codec.out.stagedRegisters[CRYPT_H + 1].value # registers[CRYPT_H + 1].value
       \/ codec.out.stagedRegisters[CRYPT_L + 1].value # registers[CRYPT_L + 1].value

C40_KeyCommitWrites ==
    C40_KeyOnly => codec.out.result = "write" /\ Len(codec.out.frame) = 11

====
